---- MODULE Spec2Model ----
(***************************************************************************)
(* The connection/session state machine of the voice-chat client:          *)
(* WebsocketService (src/src/utils/speech.ts, lines 377-809) together with *)
(* the browser WebSocket objects it creates, the host timers it arms and   *)
(* the access token it reads (src/src/config/websocket.ts).                *)
(*                                                                         *)
(* One action is one task of the single-threaded event loop: a call made   *)
(* by the application, a transport event with every listener the service   *)
(* registered for it and the promise continuations those listeners         *)
(* release, or a timer callback.  An abnormal closure fires the error      *)
(* event and the close event in one task of the host; the model takes      *)
(* them as two steps and lets nothing run in between (inTask).             *)
(*                                                                         *)
(* The playback pipeline, AudioPlaybackService                             *)
(* (src/src/services/audioPlayback.ts), is a second state machine on its   *)
(* own variables with its own specification, PlaybackSpec: a step is a     *)
(* call made by the application, the settlement of the resume() of a       *)
(* suspended context, the completion of a frame's decoding, or the ended   *)
(* event of an audio source.                                               *)
(*                                                                         *)
(* The capture pipeline, AudioRecordingService with the OpusEncoder it     *)
(* holds (src/unnamed/part_005, src/src/services/opusEncoder.ts), is a     *)
(* third state machine, CaptureSpec; CaptureFairSpec is CaptureSpec with   *)
(* the continuations of suspended calls eventually run.  The store         *)
(* (src/unnamed/part_006) drives the three services: VoiceSpec runs the    *)
(* session and the capture pipeline under connectWebsocket,                *)
(* startVoiceListen and stopVoiceListen with the events of the sockets,    *)
(* of the reconnection timer and of the capture pipeline; CoordinatorSpec  *)
(* adds the messages of the server and the store's                         *)
(* disconnectWebsocket.  A continuation the store queues as a microtask    *)
(* is a step of its own: the calls the application makes in the same task  *)
(* come before it, the events of the host after it (pendingListen).        *)
(* The PCM conversions, the device and client                              *)
(* identity of src/src/config/websocket.ts and the path option of the      *)
(* Socket.IO variant of connect() (src/unnamed/part_004) are functions of  *)
(* their inputs: PcmSpec, IdentitySpec and PathSpec draw the inputs in     *)
(* their initial states and apply them.                                    *)
(***************************************************************************)
EXTENDS Integers, Sequences, FiniteSets

\* ------------------------------------------------------------------ bounds

\* WebSocket objects the service may construct in one run.
MaxTransports == 3

\* websocketConfig.reconnectMaxAttempts; the configured value is 10, the
\* model runs the policy with a small budget N.
ReconnectMaxAttempts == 1

\* Frames the application passes to addAudioData in one run.
MaxFrames == 3

\* startRecording() calls the application makes in one run; in a run of the
\* capture service, one less for each initialize() that threw after the
\* microphone was granted.
MaxStarts == 2

\* Microphone frames handed to the encoder since recording started, and
\* encoded chunks the codec holds at one time.
MaxTicks == 2

\* How far beyond +-1.0 the samples go, in halves.
MaxOver == 2

\* startRecording() calls in a run that ends with the store's
\* disconnectWebsocket().
TeardownStarts == 1

\* connectWebsocket() calls the application makes in a voice run and in a
\* run that ends with disconnectWebsocket().
VoiceConnects == 1
TeardownConnects == 1

\* WebSockets constructed in a run that ends with disconnectWebsocket().
TeardownTransports == 2

\* Identifiers the random generators can produce, and application launches.
MaxIds == 3
MaxLaunches == 3

\* ------------------------------------------------------- program constants

\* websocketConfig.reconnect
ReconnectEnabled == TRUE

Transports == 1..MaxTransports
NoWs == 0
NoTimer == 0
\* Handler records the application passes to connect(): two distinct ones tell
\* an earlier registration from a later one.  NoHandlers is the initial {}.
NoHandlers == "none"
HandlerSets == {"h1", "h2"}
\* The handler record the store's connectWebsocket() passes.
StoreRecord == "store"
\* The slots a handler record has: h1 and h2 have every slot of
\* WebSocketEventHandlers, the store's record has no onHello and no onMCP,
\* the initial {} has none.
SlotsOf(h) ==
    CASE h = NoHandlers -> {}
      [] h = StoreRecord -> {"onConnected", "onDisconnected", "onTTS", "onLLM",
                             "onAudioData", "onError"}
      [] OTHER -> {"onConnected", "onDisconnected", "onHello", "onTTS", "onLLM", "onMCP",
                   "onAudioData", "onError"}
\* What the application may store as the access token: nothing, a token the
\* browser accepts, and one it refuses (`ab?` encodes to the subprotocol
\* `auth.YWI/`, which the WebSocket constructor rejects with a SyntaxError;
\* btoa itself throws on a character beyond Latin-1).
MalformedToken == "ab?"
Tokens == {"", "token", MalformedToken}
\* import.meta.env.VITE_ACCESS_TOKEN of a build made without it.
EnvToken == ""
InboundKinds == {"hello", "tts", "llm", "mcp", "unknown", "malformed", "binary"}

VARIABLES
    \* fields of WebsocketService
    connectionState,    \* ConnectionState
    ws,                 \* the WebSocket the service holds, NoWs for null
    reconnectAttempts,
    reconnectTimer,     \* id of the timer the service remembers, NoTimer for null
    eventHandlers,      \* the handler record last registered, NoHandlers for {}
    \* the host: WebSocket objects, timers, storage
    readyState,         \* per WebSocket: "none" (not constructed), CONNECTING, OPEN, CLOSING, CLOSED
    failed,             \* WebSockets whose closure fires an error event before the close event
    awaiter,            \* per WebSocket: the connect() call awaiting its open ("none", "caller", "timer")
    armed,              \* timers set and neither fired nor cleared
    accessToken,        \* localStorage 'access_token' and websocketConfig.accessToken
    inTask,             \* WebSocket whose close event ends the running task, NoWs if none
    \* what the last task did
    op,                 \* the operation or event
    evt,                \* the WebSocket the event came from, NoWs for calls and timers
    evtWas,             \* readyState of that WebSocket before the event
    was,                \* connectionState before the task
    calls,              \* the application callbacks invoked, in order, as <<slot, handler record>>
    sent,               \* what WebSocket.send handed to the network, in order, as <<WebSocket, kind>>
    settled,            \* how a connect() promise settled in this task: "none", "resolved", "rejected"
    cleared,            \* the timer clearTimeout was called on in this task, NoTimer if none
    got,                \* the kind of the inbound message of this task, "none" if none
    counted,            \* the sessionInfo counters this task added to
    asked,              \* the handler record the application passed to connect() in this task, NoHandlers otherwise
    \* history
    helloRecv,          \* live WebSockets on which a server hello was delivered
    attemptsMade,       \* WebSockets the reconnection timer constructed since the state was last connected
    attemptWs,          \* the latest of them, NoWs if none
    notes,              \* onDisconnected calls made by handleClose since the last connected or connect(h)
    rebuilt,            \* WebSockets the reconnection timer constructed since the application last called connect() or disconnect()
    trail,              \* the states gone through since a close event found the state connected
    solo                \* no two WebSockets have been alive at the same time so far

VARIABLES
    \* fields of AudioPlaybackService
    audioContext,       \* "null", or the state of the context held: "suspended" or "running"
    audioQueue,         \* frames waiting, oldest first
    isPlaying,
    currentSource,      \* the source node the service holds, named by its frame; NoSource for null
    onPlayCallback,     \* a play callback is registered (FALSE for null)
    onEndCallback,      \* an end callback is registered (FALSE for null)
    \* the host: decoding in progress, source nodes started and not yet ended
    decoding,           \* frames taken off the queue by a playNext() that awaits their decoding
    resuming,           \* the contexts a playNext() awaits the resume() of: per context the frames
                        \* taken off the queue by these calls, and whether the context is the
                        \* one held ("held"), one that initialize() has replaced ("left"), or
                        \* one that dispose() has closed ("closed")
    sounding,           \* frames whose source node was started and whose ended event is to come
    \* the frames
    frameKind,          \* per frame: "encoded", "pcm", "bad", or "none" while not enqueued
    accepted,           \* number of frames pushed on the queue so far
    \* what the last step did
    pop,                \* the operation or event
    pcalls,             \* the playback callbacks invoked, in order
    pbefore,            \* <<queue length, currentSource, isPlaying>> before the step
    \* history
    played,             \* the frames whose source node was started, in order
    since               \* the value of `accepted` when the queue was last cleared by the application

VARIABLES
    \* fields of AudioRecordingService
    mediaStream,        \* "null" or "live"
    recordingContext,   \* its audioContext: "null", "suspended" or "running"
    mediaStreamSource,  \* "null" or "node"
    scriptProcessor,    \* "null" or "node"
    isRecording,
    onDataCallback,     \* the frame callback, named by the startRecording call that passed it; NoCallback for null
    opusEncoder,        \* "null" or "held"
    useOpusEncoding,
    audioTimestamp,     \* in frame durations
    \* the OpusEncoder held, and the host
    encoder,            \* its AudioEncoder, named by the startRecording call that created it; NoEncoder for null
    encoderCallback,    \* its onDataCallback is set
    opusSupport,        \* what the browser offers: "none", "config" (WebCodecs without this configuration), "ok"
    starting,           \* per startRecording call: "none"; suspended on initialize of the encoder object
                        \* "held" or of an "orphan" (dropped since); suspended on resume() of the
                        \* context held ("resume"), of a replaced one that carries the script processor
                        \* held ("resumeProcessor"), one that was dropped ("resumeReplaced"), none
                        \* ("resumeBare"), or of one closed since ("resumeClosed")
    stopping,           \* per AudioEncoder: the stopRecording calls suspended on its flush()
    inCodec,            \* per AudioEncoder: the chunks it has yet to put out
    onHeld,             \* the AudioEncoders created on the encoder object held
    closedEncoders,     \* the AudioEncoders of encoder objects closed by dispose()
    strayProcessor,     \* a script processor that initialize() replaced is connected to a running context
    processorOn,        \* the context of the script processor held: "held" for the audioContext of the
                        \* service, else the state, "running" or "suspended", of an earlier context
    faulted,            \* initialize() calls that threw after the microphone was granted
    \* what the last step did
    cop,                \* the operation or event
    cprev,              \* the operation or event before it
    cbefore,            \* the fields of AudioRecordingService before the step
    fwd,                \* the callback a frame was forwarded to, NoCallback if none
    flushed,            \* encoder.flush() was called
    raised,             \* the call threw or its promise rejected
    \* history
    started,            \* startRecording calls made so far
    stopped             \* a stopRecording() has completed and startRecording() was not called since

VARIABLES
    \* the store
    torn                \* disconnectWebsocket() has returned and the application made no call since

VARIABLES
    \* the store: voice listening
    isListening,        \* isListening.value
    lastListen,         \* state of the listen message last handed to websocketService: "none", "start", "stop"
    announced,          \* the startRecording calls whose startVoiceListen went on to startListen()
    isConnected,        \* isConnected.value as the computed holds it: "unread" until its first read
    pendingListen,      \* the startRecording calls whose startVoiceListen is queued to go on
    connects,           \* connectWebsocket() calls made so far
    pendingConnects     \* connectWebsocket() calls whose getUserMedia has not settled

VARIABLES
    \* PCM conversion: a sample on its way through float32ToInt16 and decodePCMAudio
    sample,             \* the float sample, in units of 1/Resolution
    pcmStage,           \* "float", "int16" (converted), "decoded"
    int16,              \* the Int16Array element
    wire,               \* its two bytes in the ArrayBuffer, low byte first
    channelData         \* the decoded sample, in units of 1/Int16Scale

VARIABLES
    \* identity: localStorage and the websocketConfig of the running launch
    storedDeviceId,     \* localStorage 'device_id', NoId for null
    storedClientId,     \* localStorage 'client_id', NoId for null
    deviceId,           \* websocketConfig.deviceId, NoId before the first launch
    clientId,           \* websocketConfig.clientId
    launches,           \* launches so far
    foundDeviceId,      \* what the last launch found in storage
    foundClientId,
    written,            \* the keys the last launch wrote with setItem
    firstIds,           \* <<deviceId, clientId>> of the first launch
    generated           \* per key, how often an identifier was generated

VARIABLES
    \* Socket.IO connect(): configuration and the options handed to io()
    configUrl,          \* websocketConfig.url as [origin, rest]
    configPath,         \* websocketConfig.path, Undefined when not set
    ioServer,           \* the first argument of io(), Undefined before connect()
    ioPath              \* socketOptions.path, Undefined when the option is not set

service == <<connectionState, ws, reconnectAttempts, reconnectTimer, eventHandlers>>
host == <<readyState, failed, awaiter, armed, accessToken, inTask>>
observed == <<op, evt, evtWas, was, calls, sent, settled, cleared, got, counted, asked>>
history == <<helloRecv, attemptsMade, attemptWs, notes, rebuilt, trail, solo>>
session == <<service, host, observed, history>>
playback == <<audioContext, audioQueue, isPlaying, currentSource, onPlayCallback,
              onEndCallback, decoding, resuming, sounding, frameKind, accepted, pop, pcalls,
              pbefore, played, since>>
recorder == <<mediaStream, recordingContext, mediaStreamSource, scriptProcessor,
              isRecording, onDataCallback, opusEncoder, useOpusEncoding, audioTimestamp>>
capture == <<recorder, encoder, encoderCallback, opusSupport, starting, stopping,
             inCodec, onHeld, closedEncoders, strayProcessor, processorOn, faulted, cop, cprev,
             cbefore, fwd,
             flushed, raised, started, stopped>>
pcm == <<sample, pcmStage, int16, wire, channelData>>
identity == <<storedDeviceId, storedClientId, deviceId, clientId, launches,
              foundDeviceId, foundClientId, written, firstIds, generated>>
routing == <<configUrl, configPath, ioServer, ioPath>>
listen == <<isListening, lastListen, announced, isConnected, pendingListen>>
\* What a step of one service leaves alone besides the other services; `rest`
\* is the same for a step that may reach the store's handlers.
rest == <<pcm, identity, routing, connects, pendingConnects>>
aside == <<rest, listen>>
vars == <<session, playback, capture, torn, aside>>

Frames == 1..MaxFrames
NoSource == 0
FrameKinds == {"encoded", "pcm", "bad"}

\* AudioPlaybackService after construction.
PlaybackInit ==
    /\ audioContext = "null"
    /\ audioQueue = <<>>
    /\ isPlaying = FALSE
    /\ currentSource = NoSource
    /\ onPlayCallback = FALSE
    /\ onEndCallback = FALSE
    /\ decoding = {}
    /\ resuming = {}
    /\ sounding = {}
    /\ frameKind = [f \in Frames |-> "none"]
    /\ accepted = 0
    /\ pop = "init"
    /\ pcalls = <<>>
    /\ pbefore = <<0, NoSource, FALSE>>
    /\ played = <<>>
    /\ since = 0

Calls == 1..MaxStarts
NoCallback == 0
NoEncoder == 0
Encoders == {NoEncoder} \cup Calls
ResumeKinds == {"resume", "resumeProcessor", "resumeReplaced", "resumeBare", "resumeClosed"}
ThrowPoints == {"getUserMedia", "context", "source", "processor"}
OpusSupports == {"none", "config", "ok"}

\* AudioRecordingService after construction; no OpusEncoder exists yet.
CaptureInit ==
    /\ mediaStream = "null"
    /\ recordingContext = "null"
    /\ mediaStreamSource = "null"
    /\ scriptProcessor = "null"
    /\ isRecording = FALSE
    /\ onDataCallback = NoCallback
    /\ opusEncoder = "null"
    /\ useOpusEncoding = FALSE
    /\ audioTimestamp = 0
    /\ encoder = NoEncoder
    /\ encoderCallback = FALSE
    /\ starting = [c \in Calls |-> "none"]
    /\ stopping = [e \in Encoders |-> 0]
    /\ inCodec = [c \in Calls |-> 0]
    /\ onHeld = {}
    /\ closedEncoders = {}
    /\ strayProcessor = FALSE
    /\ processorOn = "held"
    /\ faulted = 0
    /\ cop = "init"
    /\ cprev = "init"
    /\ cbefore = <<"null", "null", "null", "null", FALSE, NoCallback, "null", FALSE, 0>>
    /\ fwd = NoCallback
    /\ flushed = FALSE
    /\ raised = FALSE
    /\ started = 0
    /\ stopped = FALSE

\* `0x8000` and `0x7FFF` of float32ToInt16; 32768.0 of decodePCMAudio.
NegativeScale == 32768
PositiveScale == 32767
Int16Scale == 32768

\* Samples are the multiples of 1/Resolution, half a quantization step:
\* each is a float32 value, and each product below is exact in the doubles
\* the code computes with.
Resolution == 2 * Int16Scale
\* The samples of [-1.0, 1.0], and beyond it +-1.5, +-2.0, ...
Samples ==
    ((0 - Resolution)..Resolution)
        \cup {Resolution + k * Int16Scale : k \in 1..MaxOver}
        \cup {0 - Resolution - k * Int16Scale : k \in 1..MaxOver}

\* No sample is on its way.
PcmIdle ==
    /\ sample = 0
    /\ pcmStage = "float"
    /\ int16 = 0
    /\ wire = <<0, 0>>
    /\ channelData = 0

\* Identifiers are opaque: 1..MaxIds stand for the strings the generators
\* can produce, NoId for null (and for the empty string, as falsy).
NoId == 0
Ids == 1..MaxIds
Keys == {"device_id", "client_id"}

\* An empty localStorage and no launch yet.
IdentityFresh ==
    /\ storedDeviceId = NoId
    /\ storedClientId = NoId
    /\ deviceId = NoId
    /\ clientId = NoId
    /\ launches = 0
    /\ foundDeviceId = NoId
    /\ foundClientId = NoId
    /\ written = {}
    /\ firstIds = <<NoId, NoId>>
    /\ generated = [k \in Keys |-> 0]

Undefined == "undefined"
Origins == {"http://server.com", "https://your-server.com", "http://111.230.57.211:8888"}
\* What follows the origin in the configured URL.
UrlRests == {"", "/", "/api", "/api/ws"}
ConfigPaths == {Undefined, "", "/", "/ws", "/api"}

\* websocketConfig as shipped; connect() not called yet.
RoutingDefault ==
    /\ configUrl = [origin |-> "https://your-server.com", rest |-> ""]
    /\ configPath = "/"
    /\ ioServer = Undefined
    /\ ioPath = Undefined

\* The store after construction: not listening, no listen message sent.
ListenIdle ==
    /\ isListening = FALSE
    /\ lastListen = "none"
    /\ announced = {}
    /\ isConnected = "unread"
    /\ pendingListen = {}

\* --------------------------------------------------------------- helpers

\* `this.eventHandlers.onX?.()`: the slot of the registered record is invoked
\* if the record has one.
Invoke(slot, h) == IF slot \in SlotsOf(h) THEN << <<slot, h>> >> ELSE <<>>

\* What the store's handlers do to the store when a task of the service has
\* invoked them: handleWebsocketDisconnected resets isListening (the
\* handlers of onConnected and onError log and show a message).
StoreHandlers ==
    IF \E i \in DOMAIN calls' : calls'[i] = <<"onDisconnected", StoreRecord>>
      THEN /\ isListening' = FALSE
           /\ UNCHANGED <<lastListen, announced, isConnected, pendingListen>>
      ELSE UNCHANGED listen

\* No continuation of the store is queued: an event of the host is handled
\* once the microtasks of the running task have run.
NoMicrotask == pendingListen = {}

\* handleError: the error toast and the onError slot.
HandleError(h) == Invoke("onError", h)

\* Mutant: the guard compares with the wrong state.
AlreadyConnectedWrongState == ws # NoWs /\ connectionState = "connecting"

\* The guard of `if (this.ws && this.connectionState === 'connected')` in connect().
AlreadyConnected == ws # NoWs /\ connectionState = "connected"

\* Mutant: the guard asks for a socket only.
SendAllowedAnyState(w, st) == w # NoWs

\* The guard sendMessage and sendAudioData pass: a socket is held and the
\* state is connected.
SendAllowed(w, st) == w # NoWs /\ st = "connected"

\* WebSocket.send: throws InvalidStateError while CONNECTING, hands the data
\* to the network while OPEN, discards it silently while CLOSING or CLOSED.
SendThrows(rs, w) == rs[w] = "CONNECTING"
SendWrites(rs, w) == rs[w] = "OPEN"

\* Transports constructed so far get the ids 1, 2, ... in order.
Constructed == {t \in Transports : readyState[t] # "none"}
FreshWs == Cardinality(Constructed) + 1

\* WebSockets constructed and not yet closed.
Alive(rs) == {t \in Transports : rs[t] \in {"CONNECTING", "OPEN", "CLOSING"}}

\* Number of entries of a sequence of calls that invoke `slot`.
Count(cs, slot) == Cardinality({i \in DOMAIN cs : cs[i][1] = slot})

Last(sq) == sq[Len(sq)]

\* Every service after construction.
Built ==
    /\ connectionState = "disconnected"
    /\ ws = NoWs
    /\ reconnectAttempts = 0
    /\ reconnectTimer = NoTimer
    /\ eventHandlers = NoHandlers
    /\ readyState = [t \in Transports |-> "none"]
    /\ failed = {}
    /\ awaiter = [t \in Transports |-> "none"]
    /\ armed = {}
    /\ accessToken \in Tokens
    /\ inTask = NoWs
    /\ op = "init"
    /\ evt = NoWs
    /\ evtWas = "none"
    /\ was = "disconnected"
    /\ calls = <<>>
    /\ sent = <<>>
    /\ settled = "none"
    /\ cleared = NoTimer
    /\ got = "none"
    /\ counted = {}
    /\ asked = NoHandlers
    /\ helloRecv = {}
    /\ attemptsMade = 0
    /\ attemptWs = NoWs
    /\ notes = 0
    /\ rebuilt = 0
    /\ trail = <<>>
    /\ solo = TRUE
    /\ PlaybackInit
    /\ CaptureInit
    /\ torn = FALSE
    /\ ListenIdle
    /\ connects = 0
    /\ pendingConnects = 0

Init ==
    /\ Built
    /\ opusSupport = "ok"
    /\ PcmIdle
    /\ IdentityFresh
    /\ RoutingDefault

\* ------------------------------------------------------------ observation

\* The trail starts at a close event that finds the state connected, is
\* given up when the application calls connect() or disconnect() or when a
\* WebSocket fails or times out, and ends with the next connected.
TrailNext(o) ==
    IF o = "close" /\ connectionState = "connected"
      THEN <<"connected", connectionState'>>
    ELSE IF trail = <<>> \/ Last(trail) = "connected"
      THEN <<>>
    ELSE IF o \in {"connect", "disconnect", "error", "timeout"}
      THEN <<>>
    ELSE IF connectionState' # connectionState
      THEN Append(trail, connectionState')
    ELSE trail

\* What a task leaves for the next states to see.  `o` is the operation, `e`
\* the WebSocket of the event.  Comes last in an action: it reads the primed
\* program variables.
Observe(o, e) ==
    LET connected == o = "open" /\ settled' = "resolved"
        built     == o = "timer" /\ ws' # ws
    IN  /\ op' = o
        /\ evt' = e
        /\ evtWas' = IF e = NoWs THEN "none" ELSE readyState[e]
        /\ was' = connectionState
        /\ attemptsMade' = IF connected THEN 0
                           ELSE IF built THEN attemptsMade + 1 ELSE attemptsMade
        /\ attemptWs' = IF connected THEN NoWs
                        ELSE IF built THEN ws' ELSE attemptWs
        /\ notes' = IF connected \/ o = "connect" THEN 0
                    ELSE IF o = "close" THEN notes + Count(calls', "onDisconnected")
                    ELSE notes
        /\ rebuilt' = IF o \in {"connect", "disconnect"} THEN 0
                      ELSE IF built THEN rebuilt + 1 ELSE rebuilt
        /\ trail' = TrailNext(o)
        /\ solo' = (solo /\ Cardinality(Alive(readyState')) <= 1)

\* ------------------------------------------------------------- connect()

\* Mutant: the guard tests for null only, which getAccessToken never returns.
TokenMissingNullOnly == FALSE

\* getAccessToken(): the stored token, or the one of the build, or ''.
GetAccessToken == IF accessToken # "" THEN accessToken ELSE EnvToken

\* `if (!token) throw new Error('Access token is required ...')`
TokenMissing == GetAccessToken = ""

\* btoa(token) or `new WebSocket(url, protocols)` throws inside the try
\* block of connect(): no WebSocket is constructed, the catch block runs.
TokenRejected == GetAccessToken = MalformedToken

\* Mutant: the catch block of connect() leaves the state as it finds it.
CatchStateKept(st) == st

\* The catch block of connect(): `this.connectionState = 'error'`, whatever
\* the state st it finds.
CatchState(st) == "error"

\* connect(h), up to its first suspension.  `by` tells who made the call:
\* the application ("caller") or the reconnection timer ("timer").
ConnectBody(h, by) ==
    \/ /\ AlreadyConnected
       /\ settled' = "resolved"
       /\ calls' = <<>>
       /\ UNCHANGED <<connectionState, ws, eventHandlers, readyState, awaiter>>
    \/ /\ ~AlreadyConnected
       /\ TokenMissing \/ TokenRejected
       /\ eventHandlers' = h
       /\ connectionState' = CatchState("connecting")
       /\ calls' = HandleError(h)
       /\ settled' = "rejected"
       /\ UNCHANGED <<ws, readyState, awaiter>>
    \/ /\ ~AlreadyConnected
       /\ ~TokenMissing
       /\ ~TokenRejected
       /\ FreshWs \in Transports
       /\ eventHandlers' = h
       /\ connectionState' = "connecting"
       /\ ws' = FreshWs
       /\ readyState' = [readyState EXCEPT ![FreshWs] = "CONNECTING"]
       /\ awaiter' = [awaiter EXCEPT ![FreshWs] = by]
       /\ calls' = <<>>
       /\ settled' = "none"

\* A call of connect(h), up to its first suspension.
ConnectStep(h) ==
    /\ inTask = NoWs
    /\ ConnectBody(h, "caller")
    /\ sent' = <<>>
    /\ cleared' = NoTimer
    /\ got' = "none"
    /\ counted' = {}
    /\ asked' = h
    /\ UNCHANGED <<reconnectAttempts, reconnectTimer, failed, armed, accessToken,
                   inTask, helloRecv>>
    /\ Observe("connect", NoWs)

\* The application calls connect(h).
Connect(h) ==
    /\ ConnectStep(h)
    /\ UNCHANGED <<playback, capture, torn, aside>>

\* The application calls updateAccessToken(token): the token is stored, the
\* service is not touched.
UpdateAccessToken(token) ==
    /\ inTask = NoWs
    /\ accessToken' = token
    /\ calls' = <<>>
    /\ sent' = <<>>
    /\ settled' = "none"
    /\ cleared' = NoTimer
    /\ got' = "none"
    /\ counted' = {}
    /\ asked' = NoHandlers
    /\ UNCHANGED <<service, readyState, failed, awaiter, armed, inTask, helloRecv>>
    /\ Observe("updateAccessToken", NoWs)
    /\ UNCHANGED <<playback, capture, torn, aside>>

\* sendHello -> sendMessage(hello), run by connect() after the open event:
\* the socket written to is this.ws, the guard reads this.connectionState.
HelloAllowed(w, st) == SendAllowed(w, st)

\* The rest of connect() once the awaited open event has fired: sendHello,
\* then connected, counter reset, onConnected.  `rs` is readyState at that point.
ConnectResume(rs) ==
    LET allowed == HelloAllowed(ws, connectionState)
        throws  == allowed /\ SendThrows(rs, ws)
        writes  == allowed /\ SendWrites(rs, ws)
    IN  /\ sent' = IF writes THEN << <<ws, "hello">> >> ELSE <<>>
        /\ counted' = IF allowed /\ ~throws THEN {"messageCount"} ELSE {}
        /\ connectionState' = "connected"
        /\ reconnectAttempts' = 0
        /\ calls' = (IF throws THEN HandleError(eventHandlers) ELSE <<>>)
                    \o Invoke("onConnected", eventHandlers)
        /\ settled' = "resolved"

\* The open event of WebSocket t: handleOpen (a log line) and the once-listener
\* of the promise connect() awaits.
Open(t) ==
    /\ inTask = NoWs
    /\ NoMicrotask
    /\ readyState[t] = "CONNECTING"
    /\ readyState' = [readyState EXCEPT ![t] = "OPEN"]
    /\ IF awaiter[t] # "none"
         THEN ConnectResume(readyState')
         ELSE /\ calls' = <<>>
              /\ sent' = <<>>
              /\ counted' = {}
              /\ settled' = "none"
              /\ UNCHANGED <<connectionState, reconnectAttempts>>
    /\ awaiter' = [awaiter EXCEPT ![t] = "none"]
    /\ cleared' = NoTimer
    /\ got' = "none"
    /\ asked' = NoHandlers
    /\ UNCHANGED <<ws, reconnectTimer, eventHandlers, failed, armed, accessToken,
                   inTask, helloRecv>>
    /\ Observe("open", t)
    /\ UNCHANGED <<playback, capture, torn, aside>>

\* The 10 s timer of the promise connect() awaits fires before open or error:
\* the promise rejects and connect()'s catch block runs.
Timeout(t) ==
    /\ inTask = NoWs
    /\ NoMicrotask
    /\ awaiter[t] # "none"
    /\ awaiter' = [awaiter EXCEPT ![t] = "none"]
    /\ connectionState' = CatchState(connectionState)
    /\ calls' = HandleError(eventHandlers)
    /\ sent' = <<>>
    /\ settled' = "rejected"
    /\ cleared' = NoTimer
    /\ got' = "none"
    /\ counted' = {}
    /\ asked' = NoHandlers
    /\ UNCHANGED <<ws, reconnectAttempts, reconnectTimer, eventHandlers, readyState,
                   failed, armed, accessToken, inTask, helloRecv>>
    /\ Observe("timeout", t)
    /\ UNCHANGED <<playback, capture, torn, aside>>

\* ------------------------------------------------- reconnection and close

\* window.setTimeout returns an id no armed timer has.  A timer is armed by a
\* close event only, so there are never more timers than WebSockets.
TimerIds == 1..MaxTransports
SetTimeout == CHOOSE id \in TimerIds : id \notin armed /\ \A j \in 1..(id - 1) : j \in armed

\* Mutant: the budget test is off by one.
ReconnectAllowedOffByOne == ReconnectEnabled /\ reconnectAttempts <= ReconnectMaxAttempts

\* The condition under which handleClose reconnects.
ReconnectAllowed == ReconnectEnabled /\ reconnectAttempts < ReconnectMaxAttempts

\* attemptReconnect returns at once when a timer is already remembered.
ReconnectPending == reconnectTimer # NoTimer

\* handleClose: disconnected, then attemptReconnect (counter + 1, reconnecting,
\* a timer armed) or the onDisconnected notification.
HandleClose ==
    IF ReconnectAllowed
      THEN IF ReconnectPending
             THEN /\ connectionState' = "disconnected"
                  /\ calls' = <<>>
                  /\ UNCHANGED <<reconnectAttempts, reconnectTimer, armed>>
             ELSE /\ reconnectAttempts' = reconnectAttempts + 1
                  /\ connectionState' = "reconnecting"
                  /\ reconnectTimer' = SetTimeout
                  /\ armed' = armed \cup {SetTimeout}
                  /\ calls' = <<>>
      ELSE /\ connectionState' = "disconnected"
           /\ calls' = Invoke("onDisconnected", eventHandlers)
           /\ UNCHANGED <<reconnectAttempts, reconnectTimer, armed>>

\* The host closes WebSocket t abnormally (handshake or network failure, or a
\* close() issued before the connection was established): readyState becomes
\* CLOSED and the error event fires; the close event follows in the same task.
\* Listeners: handleWebsocketError, then the once-listener that rejects the
\* promise connect() awaits, whose catch block runs next.
TransportError(t) ==
    /\ inTask = NoWs
    /\ NoMicrotask
    /\ \/ readyState[t] \in {"CONNECTING", "OPEN"}
       \/ readyState[t] = "CLOSING" /\ t \in failed
    /\ readyState' = [readyState EXCEPT ![t] = "CLOSED"]
    /\ failed' = failed \ {t}
    /\ inTask' = t
    /\ connectionState' = IF awaiter[t] # "none" THEN CatchState("error") ELSE "error"
    /\ calls' = HandleError(eventHandlers)
                \o (IF awaiter[t] # "none" THEN HandleError(eventHandlers) ELSE <<>>)
    /\ settled' = IF awaiter[t] # "none" THEN "rejected" ELSE "none"
    /\ awaiter' = [awaiter EXCEPT ![t] = "none"]
    /\ sent' = <<>>
    /\ cleared' = NoTimer
    /\ got' = "none"
    /\ counted' = {}
    /\ asked' = NoHandlers
    /\ UNCHANGED <<ws, reconnectAttempts, reconnectTimer, eventHandlers, armed,
                   accessToken, helloRecv>>
    /\ Observe("error", t)
    /\ UNCHANGED <<playback, capture, torn, aside>>

\* The close event of WebSocket t: after its error event, or alone when the
\* server closes an open connection or a close() of an open connection completes.
TransportClose(t) ==
    /\ NoMicrotask
    /\ \/ inTask = t
       \/ /\ inTask = NoWs
          /\ \/ readyState[t] = "OPEN"
             \/ readyState[t] = "CLOSING" /\ t \notin failed
    /\ readyState' = [readyState EXCEPT ![t] = "CLOSED"]
    /\ inTask' = NoWs
    /\ HandleClose
    /\ sent' = <<>>
    /\ settled' = "none"
    /\ cleared' = NoTimer
    /\ got' = "none"
    /\ counted' = {}
    /\ asked' = NoHandlers
    /\ helloRecv' = helloRecv \ {t}
    /\ UNCHANGED <<ws, eventHandlers, failed, awaiter, accessToken>>
    /\ Observe("close", t)
    /\ StoreHandlers
    /\ UNCHANGED <<playback, capture, torn, rest>>

\* The reconnection timer `id` fires: reconnectTimer = null, then
\* connect(this.eventHandlers); a rejection is caught and logged.
TimerFire(id) ==
    /\ inTask = NoWs
    /\ NoMicrotask
    /\ id \in armed
    /\ armed' = armed \ {id}
    /\ reconnectTimer' = NoTimer
    /\ ConnectBody(eventHandlers, "timer")
    /\ sent' = <<>>
    /\ cleared' = NoTimer
    /\ got' = "none"
    /\ counted' = {}
    /\ asked' = NoHandlers
    /\ UNCHANGED <<reconnectAttempts, failed, accessToken, inTask, helloRecv>>
    /\ Observe("timer", NoWs)
    /\ UNCHANGED <<playback, capture, torn, aside>>

\* ---------------------------------------------------------- disconnect()

\* Mutant: the field is reset but clearTimeout is not called.
ClearReconnectTimerForgotten == armed

\* clearTimeout(this.reconnectTimer): the timers left armed.
ClearReconnectTimer == armed \ {reconnectTimer}

\* WebSocket.close(): an open socket starts the closing handshake, a socket
\* still connecting is failed (error event, then close event), a socket
\* closing or closed is left alone.
WsClose(rs, w) ==
    IF rs[w] \in {"CONNECTING", "OPEN"} THEN [rs EXCEPT ![w] = "CLOSING"] ELSE rs

\* disconnect(): the timer is cleared, the socket closed and dropped, the
\* state set to disconnected, onDisconnected called.
DisconnectBody ==
    /\ inTask = NoWs
    /\ armed' = ClearReconnectTimer
    /\ cleared' = reconnectTimer
    /\ got' = "none"
    /\ counted' = {}
    /\ asked' = NoHandlers
    /\ reconnectTimer' = NoTimer
    /\ IF ws # NoWs
         THEN /\ readyState' = WsClose(readyState, ws)
              /\ failed' = IF readyState[ws] = "CONNECTING" THEN failed \cup {ws} ELSE failed
         ELSE UNCHANGED <<readyState, failed>>
    /\ ws' = NoWs
    /\ connectionState' = "disconnected"
    /\ calls' = Invoke("onDisconnected", eventHandlers)
    /\ sent' = <<>>
    /\ settled' = "none"
    /\ UNCHANGED <<reconnectAttempts, eventHandlers, awaiter, accessToken, inTask,
                   helloRecv>>
    /\ Observe("disconnect", NoWs)

\* The application calls disconnect().
Disconnect ==
    /\ DisconnectBody
    /\ StoreHandlers
    /\ UNCHANGED <<playback, capture, torn, rest>>

\* ------------------------------------------------------ inbound, outbound

\* WebSocket.binaryType is never set, so a binary frame is delivered as a
\* Blob; handleMessage tests `event.data instanceof ArrayBuffer`.
BinaryIsArrayBuffer == FALSE

\* Mutant: the default case of routeMessage forwards to the mcp slot.
RouteSlotDefaultToMCP(kind) ==
    CASE kind = "binary" -> IF BinaryIsArrayBuffer THEN "onAudioData" ELSE "none"
      [] kind = "hello"  -> "onHello"
      [] kind = "tts"    -> "onTTS"
      [] kind = "llm"    -> "onLLM"
      [] kind = "malformed" -> "none"
      [] OTHER           -> "onMCP"

\* handleMessage / routeMessage: the slot a message of this kind reaches.
RouteSlot(kind) ==
    CASE kind = "binary" -> IF BinaryIsArrayBuffer THEN "onAudioData" ELSE "none"
      [] kind = "hello"  -> "onHello"
      [] kind = "tts"    -> "onTTS"
      [] kind = "llm"    -> "onLLM"
      [] kind = "mcp"    -> "onMCP"
      [] OTHER           -> "none"

\* A message event of WebSocket t: handleMessage.
MessageStep(t, kind) ==
    /\ inTask = NoWs
    /\ NoMicrotask
    /\ readyState[t] = "OPEN"
    /\ calls' = IF RouteSlot(kind) = "none" THEN <<>>
                ELSE Invoke(RouteSlot(kind), eventHandlers)
    /\ helloRecv' = IF kind = "hello" THEN helloRecv \cup {t} ELSE helloRecv
    /\ got' = kind
    /\ counted' = {"messageCount"}
    /\ sent' = <<>>
    /\ settled' = "none"
    /\ cleared' = NoTimer
    /\ asked' = NoHandlers
    /\ UNCHANGED <<service, host>>
    /\ Observe("message", t)

\* A message event of WebSocket t.
Message(t, kind) ==
    /\ MessageStep(t, kind)
    /\ UNCHANGED <<playback, capture, torn, aside>>

\* The sessionInfo counter a send adds to.
SendCounter(kind) == IF kind = "audio" THEN "audioBytesSent" ELSE "messageCount"

\* sendAudioData(frame) or sendMessage(message), called once for each of
\* `kinds` in the same task: behind the guard, WebSocket.send; what it
\* throws goes to handleError.
SendStep(kinds, o) ==
    /\ inTask = NoWs
    /\ IF SendAllowed(ws, connectionState)
         THEN /\ sent' = IF SendWrites(readyState, ws)
                           THEN [i \in DOMAIN kinds |-> <<ws, kinds[i]>>] ELSE <<>>
              /\ calls' = IF SendThrows(readyState, ws) /\ eventHandlers # NoHandlers
                            THEN [i \in DOMAIN kinds |-> <<"onError", eventHandlers>>]
                            ELSE <<>>
              /\ counted' = IF SendThrows(readyState, ws)
                              THEN {} ELSE {SendCounter(kinds[i]) : i \in DOMAIN kinds}
         ELSE /\ sent' = <<>>
              /\ calls' = <<>>
              /\ counted' = {}
    /\ settled' = "none"
    /\ cleared' = NoTimer
    /\ got' = "none"
    /\ asked' = NoHandlers
    /\ UNCHANGED <<service, host, helloRecv>>
    /\ Observe(o, NoWs)

\* The application calls sendAudioData(frame).
SendAudioData ==
    /\ SendStep(<<"audio">>, "sendAudio")
    /\ UNCHANGED <<playback, capture, torn, aside>>

\* The application sends a control message (startListen, stopListen,
\* detectWakeWord, abort, sendMCP): sendMessage(message).
SendMessage ==
    /\ SendStep(<<"control">>, "sendMessage")
    /\ UNCHANGED <<playback, capture, torn, aside>>

\* ------------------------------------------------------- specification

Next ==
    \/ \E h \in HandlerSets : Connect(h)
    \/ \E token \in Tokens : UpdateAccessToken(token)
    \/ Disconnect
    \/ SendAudioData
    \/ SendMessage
    \/ \E t \in Transports : Open(t)
    \/ \E t \in Transports : Timeout(t)
    \/ \E t \in Transports : TransportError(t)
    \/ \E t \in Transports : TransportClose(t)
    \/ \E t \in Transports, kind \in InboundKinds : Message(t, kind)
    \/ \E id \in TimerIds : TimerFire(id)

Spec == Init /\ [][Next]_vars

\* ------------------------------------------------- AudioPlaybackService

\* audioContext.decodeAudioData resolves for a frame in a container format
\* the browser decodes.
DecodeAudioData(kind) == kind = "encoded"

\* decodePCMAudio returns a buffer for raw 16-bit PCM; it throws when the
\* context is gone, when the byte length is odd (Int16Array) and when the
\* frame holds no sample (createBuffer).
DecodePCMAudio(kind) == audioContext # "null" /\ kind = "pcm"

\* What a playback step leaves for the next states to see.
PlaybackObserve(o) ==
    /\ pop' = o
    /\ since' = IF o \in {"stop", "clearQueue", "dispose"} THEN accepted ELSE since
    /\ pbefore' = <<Len(audioQueue), currentSource, isPlaying>>

\* `this.onPlayCallback?.()` and `this.onEndCallback?.()`: the callback is
\* invoked when one is registered.
OnPlay == IF onPlayCallback THEN <<"onPlay">> ELSE <<>>
OnEnd == IF onEndCallback THEN <<"onEnd">> ELSE <<>>

\* `await this.audioContext.resume()` for frame f: one more playNext()
\* awaits the context held.
AwaitResume(f) ==
    LET held == {g \in resuming : g.ctx = "held"}
    IN  (resuming \ held)
            \cup {[frames |-> UNION {g.frames : g \in held} \cup {f}, ctx |-> "held"]}

\* The contexts awaited once the context held is no longer held: it has
\* been replaced (c = "left") or closed (c = "closed").
LetGo(c) ==
    {[frames |-> g.frames, ctx |-> IF g.ctx = "held" THEN c ELSE g.ctx] : g \in resuming}

\* playNext() up to its first suspension, on the queue q, after the
\* callbacks cb of the same step: it returns on an empty queue, awaits
\* resume() when the context is suspended, and the decoding otherwise.
PlayNext(q, cb) ==
    IF audioContext = "null" \/ q = <<>>
      THEN /\ isPlaying' = FALSE
           /\ audioQueue' = q
           /\ pcalls' = cb \o OnEnd
           /\ UNCHANGED <<decoding, resuming>>
      ELSE /\ isPlaying' = TRUE
           /\ audioQueue' = Tail(q)
           /\ pcalls' = cb
           /\ IF audioContext = "suspended"
                THEN /\ resuming' = AwaitResume(Head(q))
                     /\ UNCHANGED decoding
                ELSE /\ decoding' = decoding \cup {Head(q)}
                     /\ UNCHANGED resuming

\* initialize(): a new AudioContext, suspended or running as the browser
\* starts it; one held before is left open.
InitializeStep(ctx) ==
    /\ audioContext' = ctx
    /\ resuming' = LetGo("left")
    /\ pcalls' = <<>>
    /\ UNCHANGED <<audioQueue, isPlaying, currentSource, onPlayCallback, onEndCallback,
                   decoding, sounding, frameKind, accepted, played>>
    /\ PlaybackObserve("initialize")

\* The application calls initialize().
Initialize(ctx) ==
    /\ InitializeStep(ctx)
    /\ torn' = FALSE
    /\ UNCHANGED <<session, capture, aside>>

\* The application calls addAudioData(frame) with a frame of this kind.
AddAudioData(kind) ==
    /\ accepted < MaxFrames
    /\ IF audioContext = "null"
         THEN /\ pcalls' = <<>>
              /\ UNCHANGED <<audioQueue, isPlaying, decoding, resuming, frameKind, accepted>>
         ELSE /\ accepted' = accepted + 1
              /\ frameKind' = [frameKind EXCEPT ![accepted + 1] = kind]
              /\ IF ~isPlaying
                   THEN PlayNext(Append(audioQueue, accepted + 1), <<>>)
                   ELSE /\ audioQueue' = Append(audioQueue, accepted + 1)
                        /\ pcalls' = <<>>
                        /\ UNCHANGED <<isPlaying, decoding, resuming>>
    /\ UNCHANGED <<audioContext, currentSource, onPlayCallback, onEndCallback, sounding,
                   played>>
    /\ PlaybackObserve("addAudioData")
    /\ torn' = FALSE
    /\ UNCHANGED <<session, capture, aside>>

\* The decoding of frame f ends and the playNext() that awaited it goes on:
\* a source node is created and started, or, when decodeAudioData and
\* decodePCMAudio both failed, the catch block runs.
DecodeDone(f) ==
    /\ f \in decoding
    /\ decoding' = decoding \ {f}
    /\ IF audioContext # "null"
          /\ (DecodeAudioData(frameKind[f]) \/ DecodePCMAudio(frameKind[f]))
         THEN /\ currentSource' = f
              /\ sounding' = sounding \cup {f}
              /\ played' = Append(played, f)
              /\ pcalls' = OnPlay
              /\ UNCHANGED isPlaying
              /\ PlaybackObserve("play")
         ELSE /\ isPlaying' = FALSE
              /\ pcalls' = OnEnd
              /\ UNCHANGED <<currentSource, sounding, played>>
              /\ PlaybackObserve("drop")
    /\ UNCHANGED <<audioContext, audioQueue, onPlayCallback, onEndCallback, resuming,
                   frameKind, accepted>>
    /\ UNCHANGED <<session, capture, torn, aside>>

\* audioContext.resume() settles for the playNext() calls that await the
\* context g.  When it resolves each of them goes on to decodeAudioData on
\* the context the service holds by then, and to the catch block if it
\* holds none; the context, if it is the one held, runs from then on.  On a
\* context closed in the meantime the promise may as well reject, and each
\* of the calls runs the catch block: its frame is dropped.
PlaybackResumed(g, ok) ==
    /\ g \in resuming
    /\ g.ctx # "closed" => ok
    /\ resuming' = resuming \ {g}
    /\ audioContext' = IF g.ctx = "held" THEN "running" ELSE audioContext
    /\ IF ok /\ audioContext # "null"
         THEN /\ decoding' = decoding \cup g.frames
              /\ pcalls' = <<>>
              /\ UNCHANGED isPlaying
              /\ PlaybackObserve("resumed")
         ELSE /\ isPlaying' = FALSE
              /\ pcalls' = IF onEndCallback
                            THEN [i \in 1..Cardinality(g.frames) |-> "onEnd"]
                            ELSE <<>>
              /\ UNCHANGED decoding
              /\ PlaybackObserve("drop")
    /\ UNCHANGED <<audioQueue, currentSource, onPlayCallback, onEndCallback, sounding,
                   frameKind, accepted, played>>
    /\ UNCHANGED <<session, capture, torn, aside>>

\* The ended event of the source node of frame f (it played to its end or
\* stop() was called on it): onended resets currentSource and calls playNext().
Ended(f) ==
    /\ f \in sounding
    /\ sounding' = sounding \ {f}
    /\ currentSource' = NoSource
    /\ PlayNext(audioQueue, <<>>)
    /\ UNCHANGED <<audioContext, onPlayCallback, onEndCallback, frameKind, accepted,
                   played>>
    /\ PlaybackObserve("ended")
    /\ UNCHANGED <<session, capture, torn, aside>>

\* Mutant: stop() leaves the queue as it is.
StopQueueKept == audioQueue

\* stop(): `this.audioQueue = []`.
StopQueue == <<>>

\* stop(): the held source node is stopped and dropped, the queue is
\* cleared, isPlaying is reset.
StopBody ==
    /\ currentSource' = NoSource
    /\ audioQueue' = StopQueue
    /\ isPlaying' = FALSE
    /\ pcalls' = <<>>
    /\ UNCHANGED <<onPlayCallback, onEndCallback, decoding, sounding, frameKind,
                   accepted, played>>

\* The application calls stop().
Stop ==
    /\ StopBody
    /\ UNCHANGED <<audioContext, resuming>>
    /\ PlaybackObserve("stop")
    /\ torn' = FALSE
    /\ UNCHANGED <<session, capture, aside>>

\* The application calls clearQueue().
ClearQueue ==
    /\ audioQueue' = <<>>
    /\ pcalls' = <<>>
    /\ UNCHANGED <<audioContext, isPlaying, currentSource, onPlayCallback, onEndCallback,
                   decoding, resuming, sounding, frameKind, accepted, played>>
    /\ PlaybackObserve("clearQueue")
    /\ torn' = FALSE
    /\ UNCHANGED <<session, capture, aside>>

\* setCallbacks(onPlay, onEnd); an argument left out resets the callback
\* to null.
SetCallbacksStep(onPlay, onEnd) ==
    /\ onPlayCallback' = onPlay
    /\ onEndCallback' = onEnd
    /\ pcalls' = <<>>
    /\ UNCHANGED <<audioContext, audioQueue, isPlaying, currentSource, decoding, resuming,
                   sounding, frameKind, accepted, played>>
    /\ PlaybackObserve("setCallbacks")

\* The application calls setCallbacks(onPlay, onEnd).
SetCallbacks(onPlay, onEnd) ==
    /\ SetCallbacksStep(onPlay, onEnd)
    /\ torn' = FALSE
    /\ UNCHANGED <<session, capture, aside>>

\* dispose(): stop(), then the context is closed and dropped.
DisposeBody ==
    /\ StopBody
    /\ audioContext' = "null"
    /\ resuming' = LetGo("closed")
    /\ PlaybackObserve("dispose")

\* The application calls dispose().
Dispose ==
    /\ DisposeBody
    /\ torn' = FALSE
    /\ UNCHANGED <<session, capture, aside>>

PlaybackNext ==
    \/ \E ctx \in {"suspended", "running"} : Initialize(ctx)
    \/ \E kind \in FrameKinds : AddAudioData(kind)
    \/ \E g \in resuming, ok \in BOOLEAN : PlaybackResumed(g, ok)
    \/ \E f \in Frames : DecodeDone(f)
    \/ \E f \in Frames : Ended(f)
    \/ Stop
    \/ ClearQueue
    \/ \E onPlay, onEnd \in BOOLEAN : SetCallbacks(onPlay, onEnd)
    \/ Dispose

\* The playback service runs from construction; the session stays as built.
PlaybackStart == Init /\ accessToken = "token"

PlaybackSpec == PlaybackStart /\ [][PlaybackNext]_vars

\* ------------------------------------------------- AudioRecordingService

\* What a capture step leaves for the next states to see.
CaptureObserve(o) ==
    /\ cop' = o
    /\ cprev' = cop
    /\ cbefore' = recorder

\* Chunks the AudioEncoders hold altogether.
RECURSIVE SumOver(_, _)
SumOver(f, S) ==
    IF S = {} THEN 0
    ELSE LET x == CHOOSE y \in S : TRUE IN f[x] + SumOver(f, S \ {x})
Held == SumOver(inCodec, Calls)

\* The script processor held carries the context it was created on, the
\* audioContext of the service unless a later initialize() has replaced that
\* and failed before it replaced the processor.
ProcessorOnHeld == scriptProcessor = "node" /\ processorOn = "held"

\* A script processor stays connected to its context when initialize()
\* replaces it: it fires onaudioprocess while that context is running.
ProcessorLeftRunning ==
    /\ scriptProcessor = "node"
    /\ IF processorOn = "held" THEN recordingContext = "running" ELSE processorOn = "running"

\* The startRecording calls suspended on resume() when initialize() assigns
\* a new audioContext: what they await is no longer the context held.
\* `dropped` tells that the script processor is replaced as well.
ContextReplaced(dropped) ==
    [c \in Calls |->
       CASE starting[c] = "resume" /\ ProcessorOnHeld /\ dropped    -> "resumeReplaced"
         [] starting[c] = "resume" /\ ProcessorOnHeld /\ ~dropped   -> "resumeProcessor"
         [] starting[c] = "resume" /\ ~ProcessorOnHeld              -> "resumeBare"
         [] starting[c] = "resumeProcessor" /\ dropped              -> "resumeReplaced"
         [] OTHER                                                   -> starting[c]]

\* initialize() once getUserMedia has granted the microphone: stream,
\* context (running, or suspended until a user gesture), source node, script
\* processor with its onaudioprocess listener, and a new OpusEncoder.  What
\* was held before is dropped as it is: the old script processor stays
\* connected, the old context open, and the old encoder object is not
\* closed, so that a startRecording suspended on it goes on with it and its
\* AudioEncoders still put out chunks.
CaptureInitializeStep(ctx) ==
    /\ mediaStream' = "live"
    /\ recordingContext' = ctx
    /\ mediaStreamSource' = "node"
    /\ scriptProcessor' = "node"
    /\ opusEncoder' = "held"
    /\ useOpusEncoding' = FALSE
    /\ encoder' = NoEncoder
    /\ encoderCallback' = FALSE
    /\ starting' = [c \in Calls |->
                      IF starting[c] = "held" THEN "orphan" ELSE ContextReplaced(TRUE)[c]]
    /\ onHeld' = {}
    /\ strayProcessor' = (strayProcessor \/ ProcessorLeftRunning)
    /\ processorOn' = "held"
    /\ fwd' = NoCallback
    /\ flushed' = FALSE
    /\ raised' = FALSE
    /\ UNCHANGED <<isRecording, onDataCallback, audioTimestamp, opusSupport, stopping,
                   inCodec, closedEncoders, faulted, started, stopped>>
    /\ CaptureObserve("initialize")

\* The application calls initialize() and getUserMedia grants.
CaptureInitialize(ctx) ==
    /\ CaptureInitializeStep(ctx)
    /\ torn' = FALSE
    /\ UNCHANGED <<session, playback, aside>>

\* initialize() when its try block throws at `at`: getUserMedia rejects, or
\* `new AudioContext`, createMediaStreamSource or createScriptProcessor
\* throws.  The fields assigned before the throw keep their new values, the
\* others what they had: a context created by the failed call carries no
\* node, and a script processor held from before stays on its own context.
\* The catch block shows the error and rethrows.
InitializeDeniedStep(at, ctx) ==
    /\ at \in ThrowPoints
    /\ mediaStream' = IF at = "getUserMedia" THEN mediaStream ELSE "live"
    /\ recordingContext' = IF at \in {"source", "processor"} THEN ctx ELSE recordingContext
    /\ mediaStreamSource' = IF at = "processor" THEN "node" ELSE mediaStreamSource
    /\ processorOn' = IF at \in {"source", "processor"} /\ ProcessorOnHeld
                       THEN recordingContext ELSE processorOn
    /\ starting' = IF at \in {"source", "processor"} THEN ContextReplaced(FALSE) ELSE starting
    /\ faulted' = IF at = "getUserMedia" THEN faulted ELSE faulted + 1
    /\ fwd' = NoCallback
    /\ flushed' = FALSE
    /\ raised' = TRUE
    /\ UNCHANGED <<scriptProcessor, isRecording, onDataCallback, opusEncoder,
                   useOpusEncoding, audioTimestamp, encoder, encoderCallback, opusSupport,
                   stopping, inCodec, closedEncoders, onHeld, strayProcessor, started,
                   stopped>>
    /\ CaptureObserve("initializeDenied")

\* The application calls initialize() and it fails.
InitializeDenied(at, ctx) ==
    /\ InitializeDeniedStep(at, ctx)
    /\ torn' = FALSE
    /\ UNCHANGED <<session, playback, aside>>

\* `if (this.audioContext.state === 'suspended') await this.audioContext.resume()`
\* after `this.isRecording = true`, for startRecording call c whose
\* suspension, if any, is over (`st` is `starting` with that recorded): a
\* TypeError when the context is gone, a suspension on resume() when it is
\* suspended, the end of the call when it is running.
ResumeContext(c, st) ==
    /\ raised' = (recordingContext = "null")
    /\ starting' = IF recordingContext = "suspended"
                     THEN [st EXCEPT ![c] = "resume"]
                     ELSE st

\* A call of startRecording(onData), up to the await of
\* opusEncoder.initialize; OpusEncoder.initialize keeps the callback when
\* WebCodecs is there.
StartRecordingStep ==
    /\ started < MaxStarts
    /\ started' = started + 1
    /\ stopped' = FALSE
    /\ IF recordingContext = "null" \/ scriptProcessor = "null"
         THEN /\ raised' = TRUE
              /\ UNCHANGED <<recorder, encoderCallback, starting>>
       ELSE IF isRecording
         THEN /\ raised' = FALSE
              /\ UNCHANGED <<recorder, encoderCallback, starting>>
       ELSE /\ onDataCallback' = started + 1
            /\ audioTimestamp' = 0
            /\ UNCHANGED <<mediaStream, recordingContext, mediaStreamSource,
                           scriptProcessor, opusEncoder, useOpusEncoding>>
            /\ IF opusEncoder = "held"
                 THEN /\ encoderCallback' = (encoderCallback \/ opusSupport # "none")
                      /\ starting' = [starting EXCEPT ![started + 1] = "held"]
                      /\ raised' = FALSE
                      /\ UNCHANGED isRecording
                 ELSE /\ isRecording' = TRUE
                      /\ ResumeContext(started + 1, starting)
                      /\ UNCHANGED encoderCallback
    /\ fwd' = NoCallback
    /\ flushed' = FALSE
    /\ UNCHANGED <<encoder, opusSupport, stopping, inCodec, closedEncoders, onHeld,
                   strayProcessor, processorOn, faulted>>
    /\ CaptureObserve("startRecording")

\* The application calls startRecording(onData).
StartRecording ==
    /\ StartRecordingStep
    /\ torn' = FALSE
    /\ UNCHANGED <<session, playback, aside>>

\* startRecording call c goes on after opusEncoder.initialize: when the
\* browser supports the configuration a new AudioEncoder, named c, is created
\* and configured on the encoder object the call has (the one before it is
\* not closed and keeps the chunks it holds); useOpusEncoding is the
\* outcome, isRecording is set, the context resumed.
StartResumeStep(c) ==
    /\ starting[c] \in {"held", "orphan"}
    /\ useOpusEncoding' = (opusSupport = "ok")
    /\ encoder' = IF starting[c] = "held" /\ opusSupport = "ok" THEN c ELSE encoder
    /\ onHeld' = IF starting[c] = "held" /\ opusSupport = "ok"
                  THEN onHeld \cup {c} ELSE onHeld
    /\ isRecording' = TRUE
    /\ ResumeContext(c, [starting EXCEPT ![c] = "none"])
    /\ fwd' = NoCallback
    /\ flushed' = FALSE
    /\ UNCHANGED <<mediaStream, recordingContext, mediaStreamSource, scriptProcessor,
                   onDataCallback, opusEncoder, audioTimestamp, encoderCallback,
                   opusSupport, stopping, inCodec, closedEncoders, strayProcessor,
                   processorOn, faulted, started, stopped>>
    /\ CaptureObserve("startResume")

\* The continuation of startRecording call c runs.
StartResume(c) ==
    /\ StartResumeStep(c)
    /\ UNCHANGED <<session, playback, torn, aside>>

\* The startRecording calls a settled resume() lets go on.  `which` names
\* the context: the one the service holds ("resume": every call suspended
\* on it goes on in the same task), the earlier one the script processor
\* held is on ("resumeProcessor", likewise), one that initialize() has
\* replaced since, or one that dispose() has closed.
Resumed(which, c) ==
    IF which \in {"resume", "resumeProcessor"}
      THEN {d \in Calls : starting[d] = which}
      ELSE {c}

\* audioContext.resume() settles for startRecording call c.  The context
\* becomes running (if it is a replaced one, its script processor starts
\* firing) and the call returns; on a context closed in the meantime the
\* promise may as well reject.
ContextResumedStep(which, c, ok) ==
    /\ starting[c] = which
    /\ which \in ResumeKinds
    /\ which # "resumeClosed" => ok
    /\ starting' = [d \in Calls |-> IF d \in Resumed(which, c) THEN "none" ELSE starting[d]]
    /\ recordingContext' = IF which = "resume" THEN "running" ELSE recordingContext
    /\ strayProcessor' = (strayProcessor \/ which = "resumeReplaced")
    /\ processorOn' = IF which = "resumeProcessor" THEN "running" ELSE processorOn
    /\ raised' = ~ok
    /\ fwd' = NoCallback
    /\ flushed' = FALSE
    /\ UNCHANGED <<mediaStream, mediaStreamSource, scriptProcessor, isRecording,
                   onDataCallback, opusEncoder, useOpusEncoding, audioTimestamp, encoder,
                   encoderCallback, opusSupport, stopping, inCodec, closedEncoders, onHeld,
                   faulted, started, stopped>>
    /\ CaptureObserve("contextResumed")

ContextResumed(which, c, ok) ==
    /\ ContextResumedStep(which, c, ok)
    /\ UNCHANGED <<session, playback, torn, aside>>

\* Mutant: stopRecording() never returns early.
NotRecordingIgnored == FALSE

\* `if (!this.isRecording) return` of stopRecording().
NotRecording == ~isRecording

\* stopRecording() up to its end or to the await of opusEncoder.flush(),
\* which flushes the AudioEncoder the object has at that time.
StopRecordingBody ==
    IF NotRecording
      THEN /\ stopped' = TRUE
           /\ flushed' = FALSE
           /\ UNCHANGED <<isRecording, onDataCallback, audioTimestamp, stopping>>
    ELSE IF useOpusEncoding /\ opusEncoder = "held"
      THEN /\ isRecording' = FALSE
           /\ flushed' = (encoder # NoEncoder)
           /\ stopping' = [stopping EXCEPT ![encoder] = @ + 1]
           /\ UNCHANGED <<onDataCallback, audioTimestamp, stopped>>
    ELSE /\ isRecording' = FALSE
         /\ onDataCallback' = NoCallback
         /\ audioTimestamp' = 0
         /\ stopped' = TRUE
         /\ flushed' = FALSE
         /\ UNCHANGED stopping

\* A call of stopRecording().
StopRecordingStep ==
    /\ StopRecordingBody
    /\ fwd' = NoCallback
    /\ raised' = FALSE
    /\ UNCHANGED <<mediaStream, recordingContext, mediaStreamSource, scriptProcessor,
                   opusEncoder, useOpusEncoding, encoder, encoderCallback, opusSupport,
                   starting, inCodec, closedEncoders, onHeld, strayProcessor, processorOn, faulted,
                   started>>
    /\ CaptureObserve("stopRecording")

\* The application calls stopRecording().
StopRecording ==
    /\ StopRecordingStep
    /\ torn' = FALSE
    /\ UNCHANGED <<session, playback, aside>>

\* A stopRecording() goes on after flush(), which settles once the
\* AudioEncoder e it flushed has put out what it held (or has been closed;
\* at once when there was none, e = NoEncoder): the callback is dropped, the
\* timestamp reset.
StopResumeStep(e) ==
    /\ stopping[e] > 0
    /\ e # NoEncoder => inCodec[e] = 0
    /\ stopping' = [stopping EXCEPT ![e] = @ - 1]
    /\ onDataCallback' = NoCallback
    /\ audioTimestamp' = 0
    /\ stopped' = TRUE
    /\ fwd' = NoCallback
    /\ flushed' = FALSE
    /\ raised' = FALSE
    /\ UNCHANGED <<mediaStream, recordingContext, mediaStreamSource, scriptProcessor,
                   isRecording, opusEncoder, useOpusEncoding, encoder, encoderCallback,
                   opusSupport, starting, inCodec, closedEncoders, onHeld, strayProcessor,
                   processorOn, faulted, started>>
    /\ CaptureObserve("stopResume")

StopResume(e) ==
    /\ StopResumeStep(e)
    /\ UNCHANGED <<session, playback, torn, aside>>

\* The onaudioprocess event of a script processor connected to a running
\* context, the one the service holds or one that initialize() replaced:
\* processAudioData when recording.  A frame goes to the encoder
\* (OpusEncoder.encode drops it unless an encoder is configured) or, as
\* PCM, to the callback.
AudioProcessStep ==
    /\ ProcessorLeftRunning \/ strayProcessor
    /\ IF isRecording /\ onDataCallback # NoCallback
         THEN IF useOpusEncoding /\ opusEncoder = "held"
                THEN /\ audioTimestamp < MaxTicks
                     /\ Held < MaxTicks
                     /\ audioTimestamp' = audioTimestamp + 1
                     /\ inCodec' = IF encoder # NoEncoder
                                     THEN [inCodec EXCEPT ![encoder] = @ + 1]
                                     ELSE inCodec
                     /\ fwd' = NoCallback
                ELSE /\ fwd' = onDataCallback
                     /\ UNCHANGED <<audioTimestamp, inCodec>>
         ELSE /\ fwd' = NoCallback
              /\ UNCHANGED <<audioTimestamp, inCodec>>
    /\ flushed' = FALSE
    /\ raised' = FALSE
    /\ UNCHANGED <<mediaStream, recordingContext, mediaStreamSource, scriptProcessor,
                   isRecording, onDataCallback, opusEncoder, useOpusEncoding, encoder,
                   encoderCallback, opusSupport, starting, stopping, closedEncoders, onHeld,
                   strayProcessor, processorOn, faulted, started, stopped>>
    /\ CaptureObserve("audioProcess")

AudioProcess ==
    /\ AudioProcessStep
    /\ UNCHANGED <<session, playback, torn, aside>>

\* AudioEncoder e puts out a chunk: handleEncodedChunk of its OpusEncoder
\* hands it to the callback initialize kept, which forwards it when the
\* service has a frame callback; close() has reset that callback to null.
\* The encoder may be the one in use, one a later startRecording replaced,
\* or one of an object initialize() dropped.
EncodedChunkStep(e) ==
    /\ inCodec[e] > 0
    /\ inCodec' = [inCodec EXCEPT ![e] = @ - 1]
    /\ fwd' = IF e \in closedEncoders THEN NoCallback ELSE onDataCallback
    /\ flushed' = FALSE
    /\ raised' = FALSE
    /\ UNCHANGED <<recorder, encoder, encoderCallback, opusSupport, starting, stopping,
                   closedEncoders, onHeld, strayProcessor, processorOn, faulted, started, stopped>>
    /\ CaptureObserve("encodedChunk")

EncodedChunk(e) ==
    /\ EncodedChunkStep(e)
    /\ UNCHANGED <<session, playback, torn, aside>>

\* Mutant: dispose() closes the context and keeps the reference.
ContextAfterDisposeKept(ctx) == ctx

\* `if (this.audioContext && this.audioContext.state !== 'closed')
\*  { this.audioContext.close(); this.audioContext = null }`
ContextAfterDispose(ctx) == IF ctx # "null" THEN "null" ELSE ctx

\* dispose(): stopRecording() (not awaited), then the encoder object is
\* closed (its AudioEncoder in use is closed and loses its chunks, its
\* callback is reset; the AudioEncoders replaced on it go on, unheard) and
\* dropped, the nodes disconnected and dropped, the tracks stopped, the
\* context closed and dropped.
CaptureDisposeBody ==
    /\ StopRecordingBody
    /\ opusEncoder' = "null"
    /\ encoder' = NoEncoder
    /\ encoderCallback' = FALSE
    /\ inCodec' = IF opusEncoder = "held" /\ encoder # NoEncoder
                    THEN [inCodec EXCEPT ![encoder] = 0]
                    ELSE inCodec
    /\ closedEncoders' = IF opusEncoder = "held"
                           THEN closedEncoders \cup onHeld
                           ELSE closedEncoders
    /\ onHeld' = {}
    /\ starting' = [c \in Calls |->
                      CASE starting[c] = "held"            -> "orphan"
                        [] starting[c] = "resume"          -> "resumeClosed"
                        [] starting[c] = "resumeProcessor" -> "resumeBare"
                        [] OTHER                           -> starting[c]]
    /\ processorOn' = "held"
    /\ scriptProcessor' = "null"
    /\ mediaStreamSource' = "null"
    /\ mediaStream' = "null"
    /\ recordingContext' = ContextAfterDispose(recordingContext)
    /\ fwd' = NoCallback
    /\ raised' = FALSE
    /\ UNCHANGED <<useOpusEncoding, opusSupport, strayProcessor, faulted, started>>
    /\ CaptureObserve("dispose")

\* The application calls dispose().
CaptureDispose ==
    /\ CaptureDisposeBody
    /\ torn' = FALSE
    /\ UNCHANGED <<session, playback, aside>>

\* The calls a capture run is bounded in.
CaptureInitializeDenied(at, ctx) ==
    /\ at # "getUserMedia" => started + faulted < MaxStarts
    /\ InitializeDenied(at, ctx)

CaptureStartRecording == started + faulted < MaxStarts /\ StartRecording

CaptureNext ==
    \/ \E ctx \in {"suspended", "running"} : CaptureInitialize(ctx)
    \/ \E at \in ThrowPoints, ctx \in {"suspended", "running"} : CaptureInitializeDenied(at, ctx)
    \/ CaptureStartRecording
    \/ \E c \in Calls : StartResume(c)
    \/ \E which \in ResumeKinds, c \in Calls, ok \in BOOLEAN : ContextResumed(which, c, ok)
    \/ StopRecording
    \/ \E e \in Encoders : StopResume(e)
    \/ AudioProcess
    \/ \E c \in Calls : EncodedChunk(c)
    \/ CaptureDispose

\* The capture service runs from construction in a browser with or without
\* the codec; the other services stay as built.
CaptureStart ==
    /\ Built
    /\ accessToken = "token"
    /\ opusSupport \in OpusSupports
    /\ PcmIdle
    /\ IdentityFresh
    /\ RoutingDefault

CaptureSpec == CaptureStart /\ [][CaptureNext]_vars

\* What the host does on its own: a startRecording() or stopRecording()
\* suspended on the encoder goes on once the promise it awaits has settled,
\* and an encoder puts out the chunks it holds.  The calls of the
\* application and the microphone's frames may stop coming at any time, and
\* a suspended context may stay suspended.
CaptureFairness ==
    /\ WF_vars(\E c \in Calls : StartResume(c))
    /\ WF_vars(\E e \in Encoders : StopResume(e))
    /\ WF_vars(\E c \in Calls : EncodedChunk(c))

CaptureFairSpec == CaptureStart /\ [][CaptureNext]_vars /\ CaptureFairness

\* ------------------------------------------------------- PCM conversions

\* Mutant: the sample is not clipped.
ClampNone(x) == x

\* `Math.max(-1, Math.min(1, float32Array[i]))`, in units of 1/Resolution.
Clamp(x) ==
    IF x > Resolution THEN Resolution
    ELSE IF x < 0 - Resolution THEN 0 - Resolution
    ELSE x

\* The product s * k of a sample and a scale factor, a real number, as
\* <<floor, is whole>>.  s is split into its whole and fractional parts so
\* that every intermediate value fits in 32 bits.
Times(s, k) ==
    LET whole == s \div Resolution
        part  == (s % Resolution) * k
    IN  <<whole * k + part \div Resolution, part % Resolution = 0>>

\* Storing a real number in an Int16Array element: the fraction is dropped
\* (towards zero) and the integer taken modulo 2^16 into [-32768, 32767].
ToInt16(v) ==
    LET i == IF v[1] >= 0 \/ v[2] THEN v[1] ELSE v[1] + 1
    IN  ((i + 32768) % 65536) - 32768

\* float32ToInt16, for one sample: `s < 0 ? s * 0x8000 : s * 0x7FFF`.
Float32ToInt16(x) ==
    LET s == Clamp(x)
    IN  ToInt16(IF s < 0 THEN Times(s, NegativeScale) ELSE Times(s, PositiveScale))

\* The two bytes of an Int16Array element in its ArrayBuffer, and the
\* element an Int16Array over two bytes holds (two's complement, low byte
\* first).
Int16Bytes(i) == LET u == i % 65536 IN <<u % 256, u \div 256>>
BytesInt16(b) == LET u == b[1] + 256 * b[2] IN IF u >= 32768 THEN u - 65536 ELSE u

\* decodePCMAudio, for one sample: `pcmData[i] / 32768.0`, in units of
\* 1/Resolution.
DecodePCMSample(b) == (BytesInt16(b) * Resolution) \div Int16Scale

\* processAudioData on the PCM path converts the sample and hands the
\* buffer of the Int16Array to the callback.
ConvertSample ==
    /\ pcmStage = "float"
    /\ pcmStage' = "int16"
    /\ int16' = Float32ToInt16(sample)
    /\ wire' = Int16Bytes(Float32ToInt16(sample))
    /\ UNCHANGED <<sample, channelData>>
    /\ UNCHANGED <<session, playback, capture, torn, identity, routing, listen, connects, pendingConnects>>

\* The playback PCM path decodes the bytes.
DecodeSample ==
    /\ pcmStage = "int16"
    /\ pcmStage' = "decoded"
    /\ channelData' = DecodePCMSample(wire)
    /\ UNCHANGED <<sample, int16, wire>>
    /\ UNCHANGED <<session, playback, capture, torn, identity, routing, listen, connects, pendingConnects>>

PcmNext ==
    \/ ConvertSample
    \/ DecodeSample

\* Any sample; the services stay as built.
PcmStart ==
    /\ Built
    /\ accessToken = "token"
    /\ opusSupport = "ok"
    /\ sample \in Samples
    /\ pcmStage = "float"
    /\ int16 = 0
    /\ wire = <<0, 0>>
    /\ channelData = 0
    /\ IdentityFresh
    /\ RoutingDefault

PcmSpec == PcmStart /\ [][PcmNext]_vars

\* ------------------------------------------- device and client identity

\* `if (stored) return stored`, and the left operand of `||`: null and the
\* empty string are falsy.
Stored(v) == v # NoId

\* generateDeviceId / generateClientId: the stored identifier if there is
\* one, otherwise the random identifier `fresh`, which is written to storage.
GenerateId(stored, fresh) ==
    IF Stored(stored)
      THEN [id |-> stored, store |-> stored, wrote |-> FALSE, made |-> FALSE]
      ELSE [id |-> fresh, store |-> fresh, wrote |-> TRUE, made |-> TRUE]

\* Mutant: the configuration generates an identifier at every launch.
ConfigIdRegenerated(stored, fresh) ==
    [id |-> fresh, store |-> fresh, wrote |-> TRUE, made |-> TRUE]

\* `localStorage.getItem(key) || generateDeviceId()` of websocketConfig.
ConfigId(stored, fresh) ==
    IF Stored(stored)
      THEN [id |-> stored, store |-> stored, wrote |-> FALSE, made |-> FALSE]
      ELSE GenerateId(stored, fresh)

\* The application is launched: the configuration module is evaluated.  d
\* and c are what the random generators would produce.
Launch(d, c) ==
    LET dev == ConfigId(storedDeviceId, d)
        cli == ConfigId(storedClientId, c)
    IN  /\ launches < MaxLaunches
        /\ deviceId = NoId
        /\ launches' = launches + 1
        /\ deviceId' = dev.id
        /\ clientId' = cli.id
        /\ storedDeviceId' = dev.store
        /\ storedClientId' = cli.store
        /\ foundDeviceId' = storedDeviceId
        /\ foundClientId' = storedClientId
        /\ written' = (IF dev.wrote THEN {"device_id"} ELSE {})
                        \cup (IF cli.wrote THEN {"client_id"} ELSE {})
        /\ generated' = [k \in Keys |->
                            generated[k] + (IF \/ k = "device_id" /\ dev.made
                                               \/ k = "client_id" /\ cli.made
                                              THEN 1 ELSE 0)]
        /\ firstIds' = IF launches = 0 THEN <<dev.id, cli.id>> ELSE firstIds
        /\ UNCHANGED <<session, playback, capture, torn, pcm, routing, listen, connects, pendingConnects>>

\* The page is closed: the configuration object is gone, storage stays.
Quit ==
    /\ deviceId # NoId
    /\ deviceId' = NoId
    /\ clientId' = NoId
    /\ UNCHANGED <<storedDeviceId, storedClientId, launches, foundDeviceId,
                   foundClientId, written, firstIds, generated>>
    /\ UNCHANGED <<session, playback, capture, torn, pcm, routing, listen, connects, pendingConnects>>

IdentityNext ==
    \/ \E d \in Ids, c \in Ids : Launch(d, c)
    \/ Quit

\* Before the first launch, with whatever an earlier installation left in
\* storage; the services stay as built.
IdentityStart ==
    /\ Built
    /\ accessToken = "token"
    /\ opusSupport = "ok"
    /\ PcmIdle
    /\ RoutingDefault
    /\ storedDeviceId \in {NoId} \cup Ids
    /\ storedClientId \in {NoId} \cup Ids
    /\ deviceId = NoId
    /\ clientId = NoId
    /\ launches = 0
    /\ foundDeviceId = NoId
    /\ foundClientId = NoId
    /\ written = {}
    /\ firstIds = <<NoId, NoId>>
    /\ generated = [k \in Keys |-> 0]

IdentitySpec == IdentityStart /\ [][IdentityNext]_vars

\* ------------------------------------------- Socket.IO connect(): path

\* `new URL(websocketConfig.url).pathname`: "/" when nothing follows the origin.
Pathname(url) == IF url.rest = "" THEN "/" ELSE url.rest

\* `${url.protocol}//${url.host}`
ServerUrl(url) == url.origin

\* `url.pathname && url.pathname !== '/' ? url.pathname : undefined`
UrlPath(url) ==
    IF Pathname(url) # "" /\ Pathname(url) # "/" THEN Pathname(url) ELSE Undefined

\* finalPath: a configured path other than '' is used, a configured '' means
\* the Socket.IO default, and the path of the URL is used only when no path
\* is configured.
FinalPath(path, urlPath) ==
    IF path # Undefined
      THEN IF path = "" THEN Undefined ELSE path
    ELSE IF urlPath # Undefined
      THEN urlPath
    ELSE Undefined

\* connect() of the Socket.IO service, up to io(serverUrl, socketOptions):
\* socketOptions.path is set when finalPath is not undefined.
SocketConnect ==
    /\ ioServer = Undefined
    /\ ioServer' = ServerUrl(configUrl)
    /\ ioPath' = FinalPath(configPath, UrlPath(configUrl))
    /\ UNCHANGED <<configUrl, configPath>>
    /\ UNCHANGED <<session, playback, capture, torn, pcm, identity, listen, connects, pendingConnects>>

PathNext == SocketConnect

\* Any configured URL and path; the services stay as built.
PathStart ==
    /\ Built
    /\ accessToken = "token"
    /\ opusSupport = "ok"
    /\ PcmIdle
    /\ IdentityFresh
    /\ configUrl \in [origin : Origins, rest : UrlRests]
    /\ configPath \in ConfigPaths
    /\ ioServer = Undefined
    /\ ioPath = Undefined

PathSpec == PathStart /\ [][PathNext]_vars

\* ------------------------------------------------------------ the store

\* websocketService.isConnected().
ServiceConnected == connectionState = "connected"

\* isConnected.value: the computed reads websocketService.isConnected(), and
\* the service holds nothing reactive, so the first read computes the value
\* and every later read gets that value.
IsConnected == IF isConnected = "unread" THEN ServiceConnected ELSE isConnected = "true"

\* A read of isConnected.value leaves the value in the computed.
IsConnectedRead == isConnected' = IF IsConnected THEN "true" ELSE "false"

\* A component reads chatStore.isConnected.
ReadIsConnected ==
    /\ IsConnectedRead
    /\ UNCHANGED <<isListening, lastListen, announced, pendingListen>>
    /\ UNCHANGED <<session, playback, capture, torn, rest>>

\* The application calls the store's setListening(listening).
SetListening(listening) ==
    /\ isListening' = listening
    /\ UNCHANGED <<lastListen, announced, isConnected, pendingListen>>
    /\ torn' = FALSE
    /\ UNCHANGED <<session, playback, capture, rest>>

\* The frame callback startVoiceListen registers: a frame forwarded by the
\* capture step goes to websocketService.sendAudioData.
ForwardFrame ==
    IF fwd' # NoCallback
      THEN SendStep(<<"audio">>, "sendAudio")
      ELSE UNCHANGED session

\* startVoiceListen once `await audioRecordingService.startRecording(...)`
\* has returned for the calls `cs` in this task: for each, startListen(mode),
\* listenMode, isListening = true; when startRecording threw, the catch
\* block, which sends nothing.
StartListen(cs) ==
    IF raised' \/ cs = {}
      THEN UNCHANGED <<session, listen>>
      ELSE /\ SendStep([i \in 1..Cardinality(cs) |-> "control"], "sendMessage")
           /\ lastListen' = "start"
           /\ isListening' = TRUE
           /\ announced' = announced \cup cs
           /\ UNCHANGED <<isConnected, pendingListen>>

\* Where the try block of connectWebsocket() throws before it awaits the
\* open event: at a throw point of audioRecordingService.initialize(), at
\* the `new AudioContext` of audioPlaybackService.initialize(), or nowhere.
ConnectOutcomes == ThrowPoints \cup {"playback", "none"}

\* The application calls the store's connectWebsocket(): the call runs
\* into audioRecordingService.initialize() and suspends at the await of
\* getUserMedia, no field of a service assigned.
ConnectWebsocket ==
    /\ connects' = connects + 1
    /\ pendingConnects' = pendingConnects + 1
    /\ torn' = FALSE
    /\ UNCHANGED <<session, playback, capture, pcm, identity, routing, listen>>

\* getUserMedia settles for a connectWebsocket() call: the rest of
\* audioRecordingService.initialize(), then, in the same task,
\* audioPlaybackService.initialize() and websocketService.connect with the
\* store's handlers, up to the await of the open event.  A service that
\* throws ends the call in the catch block, which shows the error and
\* rethrows: the services after it are not reached.
ConnectWebsocketSettled(ctx, pctx, out) ==
    /\ pendingConnects > 0
    /\ pendingConnects' = pendingConnects - 1
    /\ inTask = NoWs
    /\ NoMicrotask
    /\ CASE out \in ThrowPoints ->
              /\ InitializeDeniedStep(out, ctx)
              /\ UNCHANGED <<playback, session>>
         [] out = "playback" ->
              /\ CaptureInitializeStep(ctx)
              /\ UNCHANGED <<playback, session>>
         [] out = "none" ->
              /\ CaptureInitializeStep(ctx)
              /\ InitializeStep(pctx)
              /\ ConnectStep(StoreRecord)
    /\ UNCHANGED <<torn, connects, pcm, identity, routing, listen>>

\* A message event of WebSocket t under the store: handleMessage, then the
\* store's handler of the slot it reaches.  handleTTSMessage registers the
\* playback callbacks when the state of the message is start (`start`); a
\* binary frame arrives as a Blob and does not reach handleAudioData.
StoreMessage(t, kind, start) ==
    /\ MessageStep(t, kind)
    /\ IF start /\ \E i \in DOMAIN calls' : calls'[i] = <<"onTTS", StoreRecord>>
         THEN SetCallbacksStep(TRUE, TRUE)
         ELSE UNCHANGED playback
    /\ UNCHANGED <<capture, torn, aside>>

\* The application calls the store's disconnectWebsocket():
\* websocketService.disconnect(), whose onDisconnected reaches the store,
\* audioRecordingService.dispose(), audioPlaybackService.dispose().
DisconnectWebsocket ==
    /\ DisconnectBody
    /\ StoreHandlers
    /\ CaptureDisposeBody
    /\ DisposeBody
    /\ torn' = TRUE
    /\ UNCHANGED rest

\* The application calls startVoiceListen(): nothing but a message when
\* isConnected.value is false; otherwise startRecording with the frame
\* callback, up to the await of its promise.  When startRecording returned
\* without suspending, the rest of startVoiceListen is queued as a
\* microtask; when it threw, the catch block changes nothing.
StartVoiceListen ==
    /\ inTask = NoWs
    /\ IsConnectedRead
    /\ IF IsConnected
         THEN /\ StartRecordingStep
              /\ pendingListen' = IF ~raised' /\ starting' = starting
                                    THEN pendingListen \cup {started + 1}
                                    ELSE pendingListen
              /\ UNCHANGED session
         ELSE UNCHANGED <<session, capture, pendingListen>>
    /\ UNCHANGED <<isListening, lastListen, announced>>
    /\ torn' = FALSE
    /\ UNCHANGED <<playback, rest>>

\* The microtask of the earliest startVoiceListen queued: startListen(mode),
\* listenMode, isListening = true.
VoiceListenResume(c) ==
    /\ c \in pendingListen
    /\ \A d \in pendingListen : c <= d
    /\ pendingListen' = pendingListen \ {c}
    /\ SendStep(<<"control">>, "sendMessage")
    /\ lastListen' = "start"
    /\ isListening' = TRUE
    /\ announced' = announced \cup {c}
    /\ UNCHANGED <<isConnected, playback, capture, torn, rest>>

\* The continuation of startRecording call c runs, and with it, unless the
\* call suspends again on resume(), the rest of the startVoiceListen that
\* awaited it.
VoiceStartResume(c) ==
    /\ inTask = NoWs
    /\ NoMicrotask
    /\ StartResumeStep(c)
    /\ StartListen(IF starting'[c] = "none" THEN {c} ELSE {})
    /\ UNCHANGED <<playback, torn, rest>>

\* resume() settles: the startRecording calls it lets go on return, and the
\* startVoiceListen that awaited each goes on.
VoiceContextResumed(which, c, ok) ==
    /\ inTask = NoWs
    /\ NoMicrotask
    /\ ContextResumedStep(which, c, ok)
    /\ StartListen(Resumed(which, c))
    /\ UNCHANGED <<playback, torn, rest>>

\* The application calls stopVoiceListen(): stopRecording() (not awaited),
\* stopListen(), isListening = false.
StopVoiceListen ==
    /\ StopRecordingStep
    /\ SendStep(<<"control">>, "sendMessage")
    /\ lastListen' = "stop"
    /\ isListening' = FALSE
    /\ UNCHANGED <<announced, isConnected, pendingListen>>
    /\ torn' = FALSE
    /\ UNCHANGED <<playback, rest>>

\* The capture events under the store: a frame goes to the server.
VoiceStopResume(e) == inTask = NoWs /\ NoMicrotask /\ StopResume(e)

VoiceAudioProcess ==
    /\ inTask = NoWs
    /\ NoMicrotask
    /\ AudioProcessStep
    /\ ForwardFrame
    /\ UNCHANGED <<playback, torn, aside>>

VoiceEncodedChunk(e) ==
    /\ inTask = NoWs
    /\ NoMicrotask
    /\ EncodedChunkStep(e)
    /\ ForwardFrame
    /\ UNCHANGED <<playback, torn, aside>>

\* The voice runs: the session and the capture pipeline as the store drives
\* them through connectWebsocket, startVoiceListen, stopVoiceListen and
\* setListening, with the events of the WebSockets, of the reconnection
\* timer and of the capture pipeline.  The server sends no message.
VoiceConnectWebsocket == connects < VoiceConnects /\ ConnectWebsocket

VoiceNext ==
    \/ VoiceConnectWebsocket
    \/ \E ctx, pctx \in {"suspended", "running"}, out \in ConnectOutcomes :
         ConnectWebsocketSettled(ctx, pctx, out)
    \/ ReadIsConnected
    \/ \E t \in Transports : Open(t)
    \/ \E t \in Transports : Timeout(t)
    \/ \E t \in Transports : TransportError(t)
    \/ \E t \in Transports : TransportClose(t)
    \/ \E id \in TimerIds : TimerFire(id)
    \/ StartVoiceListen
    \/ \E c \in Calls : VoiceListenResume(c)
    \/ \E c \in Calls : VoiceStartResume(c)
    \/ \E which \in ResumeKinds, c \in Calls, ok \in BOOLEAN : VoiceContextResumed(which, c, ok)
    \/ StopVoiceListen
    \/ \E listening \in BOOLEAN : SetListening(listening)
    \/ \E e \in Encoders : VoiceStopResume(e)
    \/ VoiceAudioProcess
    \/ \E e \in Calls : VoiceEncodedChunk(e)

VoiceStart == CaptureStart

VoiceSpec == VoiceStart /\ [][VoiceNext]_vars

\* The teardown runs: the store's calls with the messages of the server and
\* with the store's disconnectWebsocket, within the bounds of these runs.  A
\* binary frame never reaches the playback pipeline, and only a tts message
\* has its state read (`start`).  With one
\* startVoiceListen() no continuation of the store is queued as a
\* microtask: startRecording() returns without suspending only when the
\* pipeline is recording already.
CoordinatorConnectWebsocket == connects < TeardownConnects /\ ConnectWebsocket
CoordinatorTimerFire(id) == FreshWs <= TeardownTransports /\ TimerFire(id)
CoordinatorStartVoiceListen == started < TeardownStarts /\ StartVoiceListen

CoordinatorNext ==
    \/ CoordinatorConnectWebsocket
    \/ \E ctx, pctx \in {"suspended", "running"}, out \in ConnectOutcomes :
         ConnectWebsocketSettled(ctx, pctx, out)
    \/ ReadIsConnected
    \/ \E t \in Transports : Open(t)
    \/ \E t \in Transports : Timeout(t)
    \/ \E t \in Transports : TransportError(t)
    \/ \E t \in Transports : TransportClose(t)
    \/ \E id \in TimerIds : CoordinatorTimerFire(id)
    \/ CoordinatorStartVoiceListen
    \/ \E c \in Calls : VoiceStartResume(c)
    \/ \E which \in ResumeKinds, c \in Calls, ok \in BOOLEAN : VoiceContextResumed(which, c, ok)
    \/ StopVoiceListen
    \/ \E listening \in BOOLEAN : SetListening(listening)
    \/ \E e \in Encoders : VoiceStopResume(e)
    \/ VoiceAudioProcess
    \/ \E e \in Calls : VoiceEncodedChunk(e)
    \/ \E t \in Transports, kind \in InboundKinds :
         \E start \in (IF kind = "tts" THEN BOOLEAN ELSE {FALSE}) :
            StoreMessage(t, kind, start)
    \/ DisconnectWebsocket

CoordinatorStart == CaptureStart

CoordinatorSpec == CoordinatorStart /\ [][CoordinatorNext]_vars

\* ----------------------------------------------------------------- claims

ExpectedTrail == <<"connected", "reconnecting", "connecting", "connected">>

\* C1: every connect() that ends with the state connected has written a hello
\* message to the WebSocket it opened before the state is set to connected.
C1_HelloWrittenBeforeConnected ==
    (op = "open" /\ settled = "resolved")
        => \E i \in DOMAIN sent : sent[i] = <<evt, "hello">>

\* C2: the state is connected only on a WebSocket on which the server's hello
\* has been received.
C2_ConnectedOnlyAfterServerHello ==
    connectionState = "connected" => (ws # NoWs /\ ws \in helloRecv)

\* C3: the close event of a WebSocket that disconnect() closed starts no
\* reconnection: the state is not reconnecting and no timer is armed.
C3_NoReconnectAfterDisconnect ==
    (op = "close" /\ evtWas = "CLOSING")
        => (connectionState # "reconnecting" /\ reconnectTimer = NoTimer /\ armed = {})

\* C4: disconnect() leaves no reconnection timer armed: the pending timer is
\* cleared in the same task, and no timer is ever armed that the service does
\* not remember and so could not clear.
C4_DisconnectCancelsTimer ==
    /\ op = "disconnect" => (reconnectTimer = NoTimer /\ armed = {})
    /\ \A id \in armed : id = reconnectTimer

C4_Witness == op = "disconnect" /\ was = "reconnecting" /\ cleared # NoTimer

\* C5: after a connected session lost its transport, the timer makes at most
\* ReconnectMaxAttempts attempts; when the last of them has failed the state
\* is disconnected, nothing more is scheduled, and onDisconnected has been
\* called exactly once.  (Stated for the runs in which the session never had
\* two WebSockets alive at once.)
C5_ReconnectBudget ==
    solo =>
      /\ attemptsMade <= ReconnectMaxAttempts
      /\ (op = "close" /\ evt = attemptWs /\ attemptsMade = ReconnectMaxAttempts)
            => /\ connectionState = "disconnected"
               /\ armed = {}
               /\ notes = 1

\* C6: when a connect() promise resolves, sendAudioData called next passes the
\* guard and WebSocket.send hands the frame to the network.
C6_SendAfterConnectResolves ==
    settled = "resolved" => (SendAllowed(ws, connectionState) /\ SendWrites(readyState, ws))

\* C7: connect() called while the state is connected and a WebSocket is held
\* constructs no WebSocket, sends nothing, and leaves the state, the socket
\* and the reconnect counter as they were.
C7_ConnectWhenConnectedIsNoOp ==
    [][(op' = "connect" /\ connectionState = "connected" /\ ws # NoWs)
          => /\ UNCHANGED <<connectionState, ws, reconnectAttempts, readyState, awaiter>>
             /\ sent' = <<>>
             /\ settled' = "resolved"]_vars

C7_Witness == op = "connect" /\ was = "connected" /\ settled = "resolved"

\* C8: a connect() that finds no access token, made by the application or by
\* the reconnection timer while the service is not already connected,
\* rejects with the state error, constructs no WebSocket and arms no timer.
C8_NoTokenNoTransport ==
    [][(op' \in {"connect", "timer"} /\ GetAccessToken = "" /\ ~AlreadyConnected)
         => /\ settled' = "rejected"
            /\ connectionState' = "error"
            /\ Constructed' = Constructed
            /\ ws' = ws
            /\ armed' \subseteq armed]_vars

\* connect() rejected for want of a token after WebSockets had been
\* constructed with an earlier token.
C8_Witness ==
    /\ GetAccessToken = "" /\ op = "connect" /\ settled = "rejected"
    /\ connectionState = "error" /\ Constructed # {}

\* C8 as the sentence has it, for every connect() made without a token:
\* the call rejects and constructs no WebSocket.
C8_AnyConnectWithoutToken ==
    [][(op' = "connect" /\ GetAccessToken = "")
         => (settled' = "rejected" /\ Constructed' = Constructed)]_vars

\* C9: 0 <= reconnectAttempts <= reconnectMaxAttempts always; the counter
\* grows by exactly one each time a reconnection is scheduled, is 0 whenever a
\* connect() has completed successfully, and changes at no other time.
C9_ReconnectCounter ==
    /\ [](reconnectAttempts \in 0..ReconnectMaxAttempts)
    /\ [][/\ armed' \ armed # {} => reconnectAttempts' = reconnectAttempts + 1
          /\ settled' = "resolved" => reconnectAttempts' = 0
          /\ reconnectAttempts' # reconnectAttempts
                => \/ armed' \ armed # {}
                   \/ op' = "open" /\ settled' = "resolved"]_vars

C9_Witness ==
    reconnectAttempts = ReconnectMaxAttempts /\ op = "close" /\ reconnectTimer # NoTimer

\* C10: from a close event that finds the state connected to the next
\* connected, the states gone through are exactly connected, reconnecting,
\* connecting, connected.  (Stated for the runs in which the session never
\* had two WebSockets alive at once.)
C10_ReconnectStateSequence ==
    (solo /\ trail # <<>> /\ Last(trail) = "connected") => trail = ExpectedTrail

\* C11: the frames enqueued since the application last cleared the queue
\* start playing in the order they were enqueued, none twice.
C11_PlaybackOrder ==
    \A i, j \in DOMAIN played :
        (i < j /\ played[i] > since /\ played[j] > since) => played[i] < played[j]

\* C12: a non-empty playback queue implies the pipeline is playing.
C12_NeverIdleWhilePending == audioQueue # <<>> => isPlaying

\* C13: when both decode paths fail for a frame, the frames queued behind it
\* go on: the pipeline stays playing and the next frame is being decoded.
C13_DropOnlyFailedFrame ==
    (pop = "drop" /\ audioQueue # <<>>) => (isPlaying /\ decoding # {})

\* C14: right after stop() the queue is empty, no source is held and the
\* pipeline is idle, whatever was queued or playing.
C14_StopClearsQueue ==
    pop = "stop" => (audioQueue = <<>> /\ ~isPlaying /\ currentSource = NoSource)

\* stop() called with a frame playing and two frames queued.
C14_Witness == pop = "stop" /\ pbefore[1] = 2 /\ pbefore[2] # NoSource /\ pbefore[3]

\* C15: a control-message send or sendAudioData made in a state other than
\* connected writes nothing, calls no callback (no error is raised or
\* reported), counts nothing, and leaves the state, the socket and the
\* reconnect counter as they were.
C15_SendWhenNotConnected ==
    [][(op' \in {"sendAudio", "sendMessage"} /\ connectionState # "connected")
         => /\ sent' = <<>>
            /\ calls' = <<>>
            /\ counted' = {}
            /\ UNCHANGED <<connectionState, reconnectAttempts, ws, readyState>>]_vars

\* A control message sent while reconnecting with a socket still held.
C15_Witness == op = "sendMessage" /\ was = "reconnecting" /\ ws # NoWs /\ sent = <<>>

\* C16: an inbound message that is malformed JSON or has an unknown type
\* invokes no callback and leaves the state and the socket as they were.
C16_UndecodableMessageDropped ==
    (op = "message" /\ got \in {"unknown", "malformed"})
        => (calls = <<>> /\ connectionState = was /\ readyState[evt] = "OPEN")

\* A message of unknown type received while connected.
C16_Witness ==
    op = "message" /\ got = "unknown" /\ connectionState = "connected" /\ evt = ws

\* C17: a binary payload is handed to onAudioData.
C17_BinaryToAudioHandler ==
    (op = "message" /\ got = "binary") => calls = Invoke("onAudioData", eventHandlers)

\* C18: a transport error event makes the state error only when it finds it
\* connecting or connected (or error already): one that arrives while the
\* state is disconnected or reconnecting does not.
C18_ErrorOnlyFromConnectingOrConnected ==
    (op = "error" /\ connectionState = "error")
        => was \in {"connecting", "connected", "error"}

\* C19: the timeout of a connect() rejects it; an error event leaves no
\* connect() waiting on its socket; and whenever a connect() is rejected the
\* state is error.
C19_FailureRejectsInErrorState ==
    /\ op = "timeout" => settled = "rejected"
    /\ op = "error" => awaiter[evt] = "none"
    /\ settled = "rejected" => connectionState = "error"

\* connect() rejected by its timeout while the socket was still connecting.
C19_Witness == op = "timeout" /\ settled = "rejected" /\ evtWas = "CONNECTING"

\* C20: a message received right after the application called connect(h) is
\* dispatched to the callbacks of h.
C20_LastRegistrationWins ==
    [][(op = "connect" /\ op' = "message")
         => \A i \in DOMAIN calls' : calls'[i][2] = asked]_vars

\* C21: stopRecording() called while not recording changes neither the
\* recording flag, the frame callback, the encoder nor the audio timestamp,
\* and does not flush the codec.
C21_StopWhenNotRecordingIsNoOp ==
    (cop = "stopRecording" /\ ~cbefore[5])
        => /\ isRecording = cbefore[5]
           /\ onDataCallback = cbefore[6]
           /\ opusEncoder = cbefore[7]
           /\ audioTimestamp = cbefore[9]
           /\ ~flushed

\* stopRecording() called again while the first call still awaits the flush:
\* the callback and the timestamp of the recording are still there.
C21_Witness ==
    /\ cop = "stopRecording" /\ ~cbefore[5]
    /\ onDataCallback # NoCallback /\ audioTimestamp > 0

\* C22: once a stopRecording() has completed, and until startRecording() is
\* called again, no frame is forwarded to the frame callback.
C22_NoFrameAfterStop == stopped => fwd = NoCallback

Released ==
    /\ mediaStream = "null"
    /\ recordingContext = "null"
    /\ mediaStreamSource = "null"
    /\ scriptProcessor = "null"
    /\ opusEncoder = "null"
    /\ ~isRecording

\* C23: dispose() leaves the pipeline released (no stream, no context, no
\* nodes, no encoder, not recording) and raises nothing; called again right
\* after, it leaves every field as the first call left it.
C23_DisposeIdempotent ==
    /\ cop = "dispose" => (Released /\ ~raised)
    /\ (cop = "dispose" /\ cprev = "dispose") => recorder = cbefore

\* dispose() called twice in a row on a pipeline that was recording through
\* the encoder: the stopRecording() of the first call still awaits the flush.
C23_Witness ==
    cop = "dispose" /\ cprev = "dispose" /\ \E e \in Encoders : stopping[e] > 0

\* C24: from the return of disconnectWebsocket() until the application's
\* next call, the capture pipeline is not recording, the playback queue is
\* empty and playback is idle.
C24_TeardownLeavesIdle ==
    torn => (~isRecording /\ audioQueue = <<>> /\ ~isPlaying)

\* One quantization step, 1/32768, in units of 1/Resolution.
QuantizationStep == Resolution \div Int16Scale

\* C25: a sample of [-1.0, 1.0] converted by float32ToInt16 and decoded by
\* the playback PCM path comes back within one quantization step.
C25_PcmRoundTrip ==
    (pcmStage = "decoded" /\ sample >= 0 - Resolution /\ sample <= Resolution)
        => /\ channelData - sample <= QuantizationStep
           /\ sample - channelData <= QuantizationStep

\* C26: float32ToInt16 gives an integer of [-32768, 32767]: 32767 for a
\* sample at or above +1.0, -32768 for one at or below -1.0, otherwise the
\* sample times 32767 (positive) or times 32768 (negative) with the fraction
\* dropped.
C26_PcmClipAndScale ==
    pcmStage # "float"
        => /\ int16 >= 0 - 32768 /\ int16 <= 32767
           /\ sample >= Resolution => int16 = 32767
           /\ sample <= 0 - Resolution => int16 = 0 - 32768
           /\ (sample >= 0 /\ sample < Resolution)
                => LET d == sample * PositiveScale - int16 * Resolution
                   IN  d >= 0 /\ d < Resolution
           /\ (sample < 0 /\ sample > 0 - Resolution)
                => LET d == int16 * Resolution - sample * NegativeScale
                   IN  d >= 0 /\ d < Resolution

\* A sample beyond +1.0 was converted.
C26_Witness == pcmStage = "int16" /\ sample > Resolution /\ int16 = 32767

\* C27: each identifier is generated at most once; an identifier found in
\* storage is used as it is and storage is not written; every launch uses
\* the device id and the client id of the first one.
C27_IdentityGeneratedOnce ==
    /\ \A k \in Keys : generated[k] <= 1
    /\ deviceId # NoId
         => /\ deviceId = firstIds[1] /\ clientId = firstIds[2]
            /\ storedDeviceId = deviceId /\ storedClientId = clientId
            /\ foundDeviceId # NoId
                 => (deviceId = foundDeviceId /\ "device_id" \notin written)
            /\ foundClientId # NoId
                 => (clientId = foundClientId /\ "client_id" \notin written)

\* A third launch, after a first one that generated both identifiers.
C27_Witness ==
    /\ launches = 3 /\ deviceId # NoId /\ written = {}
    /\ generated["device_id"] = 1 /\ generated["client_id"] = 1

\* C28: the path option handed to Socket.IO is config.path when that is set
\* and not the empty string; otherwise the pathname of the configured URL
\* when it is not "/"; otherwise the option is not set.
C28_PathPriority ==
    ioServer # Undefined
        => ioPath = IF configPath # Undefined /\ configPath # ""
                      THEN configPath
                    ELSE IF Pathname(configUrl) # "/"
                      THEN Pathname(configUrl)
                    ELSE Undefined

\* C29: with the callbacks registered, a step that takes playback from
\* playing to idle invokes the idle callback exactly once, and a step that
\* starts a frame invokes the play callback exactly once.
C29_CallbackPerTransition ==
    /\ (pbefore[3] /\ ~isPlaying /\ onEndCallback)
          => Cardinality({i \in DOMAIN pcalls : pcalls[i] = "onEnd"}) = 1
    /\ (pop = "play" /\ onPlayCallback)
          => Cardinality({i \in DOMAIN pcalls : pcalls[i] = "onPlay"}) = 1

\* C30: at most one WebSocket the service constructed is connecting or open.
C30_AtMostOneTransport ==
    Cardinality({t \in Transports : readyState[t] \in {"CONNECTING", "OPEN"}}) <= 1

\* C31: reconnection is bounded even when the WebSockets open: left to
\* itself (no connect() or disconnect() by the application), the reconnection
\* timer constructs at most ReconnectMaxAttempts WebSockets.  (Stated for
\* the runs in which the session never had two WebSockets alive at once.)
C31_ReconnectionBounded ==
    solo => rebuilt <= ReconnectMaxAttempts

\* The close event that ends the running task, or that may come next, is the
\* one of a WebSocket t that disconnect() closed: it is closing, or it was
\* closing when its error event fired in this task.
ClosedByDisconnect(t) ==
    \/ inTask = NoWs /\ readyState[t] = "CLOSING"
    \/ inTask = t /\ op = "error" /\ evt = t /\ evtWas = "CLOSING"

\* C32: disconnect() notifies the registered handlers through onDisconnected
\* exactly once, and the close event of the WebSocket it closed does not
\* notify them again.  (The second part is stated for the runs in which the
\* session never had two WebSockets alive at once.)
C32_OneDisconnectNotification ==
    /\ []((op = "disconnect" /\ eventHandlers # NoHandlers)
            => Count(calls, "onDisconnected") = 1)
    /\ [][\A t \in Transports :
            (solo' /\ op' = "close" /\ evt' = t /\ ClosedByDisconnect(t))
                => Count(calls', "onDisconnected") = 0]_vars

\* The frames a playNext() has in hand: those it took off the queue and
\* awaits the resumed context or the decoding of, and the one whose started
\* source node the service holds.
InHand ==
    UNION {g.frames : g \in resuming} \cup decoding
        \cup (IF currentSource = NoSource THEN {} ELSE {currentSource})

\* C33: at most one playback is in progress: never are two frames in the
\* hands of playNext() at once, being decoded or playing.
C33_OnePlaybackAtATime ==
    Cardinality(InHand) <= 1

\* C34: a frame that was being decoded when stop() was called is not played
\* when its decoding completes.
C34_NoPlayAfterStop ==
    [][\A f \in Frames :
          (pop = "stop" /\ f \in decoding)
              => ~(pop' = "play" /\ played' = Append(played, f))]_vars

\* C35: recording implies a frame sink: whenever isRecording is true the
\* frame callback is set.
C35_RecordingHasCallback ==
    isRecording => onDataCallback # NoCallback

\* C36: a stop request is not lost: when stopRecording() has been called
\* after startRecording() and startRecording() is not called any more, the
\* pipeline eventually is and stays not recording.  (Stated for the runs
\* without Opus encoding, in which stopRecording() completes within the call
\* and `stopped` tells that no startRecording() followed the call.)
C36_StopNotLost ==
    ([](~useOpusEncoding) /\ <>[](started > 0 /\ stopped)) => <>[](~isRecording)

\* C37: within a listening episode no frame goes to the server before the
\* episode's listen start: a frame handed to the callback of a
\* startVoiceListen that has not sent its listen message is written to the
\* socket only when a listen start is the last listen message the server got
\* (an earlier startVoiceListen of the same episode has sent it).
C37_ListenStartBeforeFrames ==
    (/\ fwd # NoCallback
     /\ fwd \notin announced
     /\ \E i \in DOMAIN sent : sent[i][2] = "audio") => lastListen = "start"
====
